---- MODULE Spec2Model ----
(***************************************************************************)
(* A model of the MicroTeX formula layer and of the atom layout code:      *)
(* Formula (construction, add, copy, predefined-formula lookup),           *)
(* ArrayFormula bookkeeping, CumulativeScriptsAtom, LongDivAtom,           *)
(* ResizeAtom and the createBox methods of SideSetsAtom, FencedAtom and    *)
(* MiddleAtom.  Atoms and formulas are objects with identity: they live in *)
(* a heap (a sequence of records) and are referred to by their index, so   *)
(* that aliasing and in-place mutation are visible.                        *)
(***************************************************************************)
EXTENDS Integers, Sequences, FiniteSets, TLC

VARIABLES
  heap,        \* the atoms: heap[i] is the atom object with address i
  formulas,    \* the Formula objects: [root, middle]
  predefined,  \* Formula::_predefinedTeXFormulas: name -> formula address or NULL
  got,         \* the formulas handed out by Formula::get, in call order
  ctorLog,     \* the parser-taking constructor calls made so far
  hist,        \* per formula: the atoms passed to add, and what it copies
  last,        \* the operation performed by the last step
  layoutLog,   \* the createBox calls made so far: [atom, env, box]
  divisor,     \* LongDivAtom::_divisor
  dividend,    \* LongDivAtom::_dividend
  results,     \* the vector filled by LongDivAtom::calculate
  rsz,         \* the ResizeAtom under layout and its base box
  rszOut,      \* what ResizeAtom::createBox returned
  arr,         \* the ArrayFormula: [array, row, col, root], and the last call on it
  subject,     \* the single atom under layout, with the boxes of its children
  laid,        \* what its createBox returned, and the environment it left
  lib          \* the library: MICROTEX_CONFIG, the fonts known, the last call

vars == <<heap, formulas, predefined, got, ctorLog, hist, last, layoutLog,
          divisor, dividend, results, rsz, rszOut, arr, subject, laid, lib>>

formulaVars == <<heap, formulas, predefined, got, ctorLog, hist, last>>

layoutVars == <<layoutLog>>

divVars == <<divisor, dividend, results>>

resizeVars == <<rsz, rszOut>>

arrayVars == <<arr>>

atomVars == <<subject, laid>>

libVars == <<lib>>

\* the null pointer
NULL == 0

(***************************************************************************)
(* Sequence helpers                                                        *)
(***************************************************************************)
Range(s) == {s[i] : i \in DOMAIN s}

Last(s) == s[Len(s)]

(***************************************************************************)
(* Atoms                                                                   *)
(***************************************************************************)
\* a symbol or character atom of the given atom type
SymbolAtom(type) == [kind |-> "Symbol", type |-> type]

\* TypedAtom(left, right, base)
TypedAtom(left, right, base) ==
  [kind |-> "Typed", left |-> left, right |-> right, base |-> base]

BreakMarkAtom == [kind |-> "BreakMark"]

EmptyAtom == [kind |-> "Empty"]

\* MiddleAtom: _height is 0 until a fence fixes it
MiddleAtom == [kind |-> "Middle", sym |-> "vert", height |-> 0]

IsRow(H, a) == a # NULL /\ H[a].kind = "Row"

\* RowAtom::RowAtom(const sptr<Atom>&): a null atom gives an empty row, a row
\* gives a row over the same children, any other atom a row of that atom
RowAtom(H, atom) ==
  [kind |-> "Row",
   elements |-> IF atom = NULL THEN <<>>
                ELSE IF H[atom].kind = "Row" THEN H[atom].elements
                ELSE <<atom>>,
   breakable |-> TRUE]

\* RowAtom::add: appends in place, a null atom is ignored
RowAtom_add(H, row, el) ==
  IF el = NULL THEN H
  ELSE [H EXCEPT ![row].elements = Append(@, el)]

\* ColorAtom::ColorAtom(atom, bg, c)
ColorAtom(elements, bg, c) ==
  [kind |-> "Color", background |-> bg, color |-> c, elements |-> elements]

\* the atoms reachable from a (a itself included)
RECURSIVE Reach(_, _)
Reach(H, a) ==
  IF a = NULL THEN {}
  ELSE LET x == H[a]
           kids == CASE x.kind = "Row" -> Range(x.elements)
                     [] x.kind = "Typed" -> {x.base}
                     [] x.kind = "Color" -> {x.elements}
                     [] x.kind = "Phantom" -> {x.elements}
                     [] x.kind = "Scripts" -> {x.base, x.sub, x.sup}
                     [] x.kind = "Cumulative" -> {x.base, x.sub, x.sup}
                     [] x.kind = "SideSets" -> {x.base, x.left, x.right}
                     [] x.kind = "Fenced" -> {x.base} \cup Range(x.m)
                     [] OTHER -> {}
       IN {a} \cup UNION {Reach(H, k) : k \in kids}

\* an atom tree as a value: the root's address and every object under it
Tree(H, a) == [root |-> a, nodes |-> [n \in Reach(H, a) |-> H[n]]]

(***************************************************************************)
(* Formula                                                                 *)
(***************************************************************************)
\* Formula::Formula(): no root, no middles
NewFormula == [root |-> NULL, middle |-> <<>>]

\* the pair of stores every Formula method works on
Mem(H, F) == [heap |-> H, formulas |-> F]

\* Formula::add with the line-break test made on the atom's left type
Formula_add_leftType(H, F, f, el) ==
  IF el = NULL THEN Mem(H, F)
  ELSE
    LET mid == IF H[el].kind = "Middle" THEN Append(F[f].middle, el)
               ELSE F[f].middle
    IN IF F[f].root = NULL
       THEN Mem(H, [F EXCEPT ![f] = [root |-> el, middle |-> mid]])
       ELSE
         LET isRow == IsRow(H, F[f].root)
             H1 == IF isRow THEN H ELSE Append(H, RowAtom(H, F[f].root))
             rm == IF isRow THEN F[f].root ELSE Len(H1)
             H2 == RowAtom_add(H1, rm, el)
             brk == H[el].kind = "Typed"
                    /\ H[el].left \in {"binaryOperator", "relation"}
             H3 == IF brk THEN Append(H2, BreakMarkAtom) ELSE H2
             H4 == IF brk THEN RowAtom_add(H3, rm, Len(H3)) ELSE H3
         IN Mem(H4, [F EXCEPT ![f] = [root |-> rm, middle |-> mid]])

\* Formula::add(el) on formula f
Formula_add(H, F, f, el) ==
  IF el = NULL THEN Mem(H, F)
  ELSE
    LET mid == IF H[el].kind = "Middle" THEN Append(F[f].middle, el)
               ELSE F[f].middle
    IN IF F[f].root = NULL
       THEN Mem(H, [F EXCEPT ![f] = [root |-> el, middle |-> mid]])
       ELSE
         LET isRow == IsRow(H, F[f].root)
             H1 == IF isRow THEN H ELSE Append(H, RowAtom(H, F[f].root))
             rm == IF isRow THEN F[f].root ELSE Len(H1)
             H2 == RowAtom_add(H1, rm, el)
             brk == H[el].kind = "Typed"
                    /\ H[el].right \in {"binaryOperator", "relation"}
             H3 == IF brk THEN Append(H2, BreakMarkAtom) ELSE H2
             H4 == IF brk THEN RowAtom_add(H3, rm, Len(H3)) ELSE H3
         IN Mem(H4, [F EXCEPT ![f] = [root |-> rm, middle |-> mid]])

\* Formula::addImpl handing over every root as it is, a row root too
Formula_addImpl_shared(H, F, g, f) ==
  IF f = NULL THEN Mem(H, F)
  ELSE Formula_add(H, F, g, F[f].root)

\* Formula::addImpl(f) on the formula g being built: a row root is handed over
\* as a new row over the same children, any other root as it is
Formula_addImpl(H, F, g, f) ==
  IF f = NULL THEN Mem(H, F)
  ELSE IF IsRow(H, F[f].root)
       THEN LET H1 == Append(H, RowAtom(H, F[f].root))
            IN Formula_add(H1, F, g, Len(H1))
       ELSE Formula_add(H, F, g, F[f].root)

\* Formula::Formula(const Formula* f): the new formula is the last one of the
\* formula store
Formula_copy(H, F, f) ==
  LET F1 == Append(F, NewFormula)
  IN Formula_addImpl(H, F1, Len(F1), f)

\* the transparent colour
TRANS == "trans"

istrans(c) == c = TRANS

\* ColorAtom::ColorAtom(bg, c, old): a colour atom over a new row of old's
\* elements; a transparent argument keeps old's colour
ColorAtom_merge(H, bg, c, old) ==
  LET H1 == Append(H, RowAtom(H, H[old].elements))
  IN Append(H1, ColorAtom(Len(H1),
                          IF istrans(bg) THEN H[old].background ELSE bg,
                          IF istrans(c) THEN H[old].color ELSE c))

\* the root given by new ColorAtom(...) in setBackground and setColor
Formula_recolor(H, F, f, bg, c) ==
  LET root == F[f].root
      H2 == IF root # NULL /\ H[root].kind = "Color"
            THEN ColorAtom_merge(H, bg, c, root)
            ELSE LET H1 == Append(H, RowAtom(H, root))
                 IN Append(H1, ColorAtom(Len(H1), bg, c))
  IN Mem(H2, [F EXCEPT ![f].root = Len(H2)])

\* Formula::setBackground(c)
Formula_setBackground(H, F, f, c) ==
  IF istrans(c) THEN Mem(H, F) ELSE Formula_recolor(H, F, f, c, TRANS)

\* Formula::setColor(c)
Formula_setColor(H, F, f, c) ==
  IF istrans(c) THEN Mem(H, F) ELSE Formula_recolor(H, F, f, TRANS, c)

\* Formula::setFixedTypes(left, right)
Formula_setFixedTypes(H, F, f, left, right) ==
  LET H1 == Append(H, TypedAtom(left, right, F[f].root))
  IN Mem(H1, [F EXCEPT ![f].root = Len(H1)])

(***************************************************************************)
(* The parser (an external collaborator).  A LaTeX string is a sequence of *)
(* tokens: "ord" and "bin" each give one symbol atom, which the parser     *)
(* adds to its formula; "err" is malformed input, at which parse() throws. *)
(***************************************************************************)
TokenAtom(tok) ==
  IF tok = "bin" THEN SymbolAtom("binaryOperator") ELSE SymbolAtom("ordinary")

\* TeXParser::parse() of latex into formula f: [heap, formulas, threw]
RECURSIVE TeXParser_parse(_, _, _, _)
TeXParser_parse(H, F, f, latex) ==
  IF latex = <<>> THEN [heap |-> H, formulas |-> F, threw |-> FALSE]
  ELSE IF Head(latex) = "err" THEN [heap |-> H, formulas |-> F, threw |-> TRUE]
  ELSE LET H1 == Append(H, TokenAtom(Head(latex)))
           m == Formula_add(H1, F, f, Len(H1))
       IN TeXParser_parse(m.heap, m.formulas, f, Tail(latex))

\* the constructors Formula(const TeXParser& tp, const wstring& latex, ...)
ParserCtors ==
  {"tp_latex_textStyle_firstpass_ignoreWhiteSpace", "tp_latex_textStyle",
   "tp_latex_firstpass", "tp_latex"}

\* whether the catch block of the constructor substitutes an EmptyAtom
CtorSubstitutes(ctor) == ctor # "tp_latex_firstpass"

\* Formula::Formula(const TeXParser& tp, const wstring& latex, ...):
\* [heap, formulas, threw, outcome, f]; outcome "thrown" is the parse error
\* leaving the constructor, and then no formula exists
Formula_fromParser(H, F, ctor, partial, latex) ==
  LET F1 == Append(F, NewFormula)
      f == Len(F1)
      p == TeXParser_parse(H, F1, f, latex)
      H2 == IF p.threw /\ CtorSubstitutes(ctor) /\ p.formulas[f].root = NULL
            THEN Append(p.heap, EmptyAtom) ELSE p.heap
      F2 == IF p.threw /\ CtorSubstitutes(ctor) /\ p.formulas[f].root = NULL
            THEN [p.formulas EXCEPT ![f].root = Len(H2)] ELSE p.formulas
  IN IF partial
     THEN [heap |-> H2, formulas |-> F2, threw |-> p.threw,
           outcome |-> "returned", f |-> f]
     ELSE IF p.threw
          THEN [heap |-> H, formulas |-> F, threw |-> TRUE,
                outcome |-> "thrown", f |-> NULL]
          ELSE [heap |-> p.heap, formulas |-> p.formulas, threw |-> FALSE,
                outcome |-> "returned", f |-> f]

\* Formula::Formula(const wstring& latex): parses, errors propagate
Formula_fromString(H, F, latex) ==
  Formula_fromParser(H, F, "latex", FALSE, latex)

(***************************************************************************)
(* Predefined formulas                                                     *)
(***************************************************************************)
\* the names callers ask for; "none" is registered nowhere
Names == {"sym", "row", "none"}

\* Formula::_predefinedTeXFormulasAsString
_predefinedTeXFormulasAsString ==
  [n \in {"sym", "row"} |-> IF n = "sym" THEN <<"ord">> ELSE <<"ord", "bin">>]

\* Formula::get once it has built tf, storing tf whatever its root is
Formula_getBuilt_always(P, name, tf) ==
  [heap |-> tf.heap, formulas |-> tf.formulas,
   predefined |-> [P EXCEPT ![name] = tf.f],
   outcome |-> "returned", f |-> tf.f]

\* Formula::get once it has built tf: tf is stored under the name unless its
\* root is a row, and tf itself is returned
Formula_getBuilt(P, name, tf) ==
  [heap |-> tf.heap, formulas |-> tf.formulas,
   predefined |-> IF IsRow(tf.heap, tf.formulas[tf.f].root) THEN P
                  ELSE [P EXCEPT ![name] = tf.f],
   outcome |-> "returned", f |-> tf.f]

\* Formula::get(name): [heap, formulas, predefined, outcome, f]
Formula_get(H, F, P, name) ==
  IF P[name] = NULL
  THEN IF name \notin DOMAIN _predefinedTeXFormulasAsString
       THEN [heap |-> H, formulas |-> F, predefined |-> P,
             outcome |-> "ex_formula_not_found", f |-> NULL]
       ELSE Formula_getBuilt(P, name,
              Formula_fromString(H, F, _predefinedTeXFormulasAsString[name]))
  ELSE [heap |-> H, formulas |-> F, predefined |-> P,
        outcome |-> "returned", f |-> P[name]]

(***************************************************************************)
(* Bounds of the formula-layer specifications                              *)
(***************************************************************************)
MaxAtoms == 5

MaxFormulas == 2

MaxAddAtoms == 6

MaxAddFormulas == 1

MaxGets == 3

MaxCtors == 2

(***************************************************************************)
(* The callers of the formula layer                                        *)
(***************************************************************************)
\* the kinds of atom a caller builds before handing it to Formula::add
AtomKinds == {"ord", "bin", "typedOrd", "typedBin", "typedRel", "row", "middle"}

\* the heap after a caller built an atom of the given kind; the new atom is
\* the last one of the heap
Alloc(H, what) ==
  CASE what = "ord" -> Append(H, SymbolAtom("ordinary"))
    [] what = "bin" -> Append(H, SymbolAtom("binaryOperator"))
    [] what = "middle" -> Append(H, MiddleAtom)
    [] what = "row" ->
         LET H1 == Append(H, SymbolAtom("ordinary"))
         IN Append(H1, RowAtom(H1, Len(H1)))
    [] OTHER ->
         LET H1 == Append(H, SymbolAtom("ordinary"))
             right == CASE what = "typedBin" -> "binaryOperator"
                        [] what = "typedRel" -> "relation"
                        [] OTHER -> "ordinary"
         IN Append(H1, TypedAtom("ordinary", right, Len(H1)))

NoHist == [atoms |-> <<>>, copyOf |-> NULL]

\* the history extended to the formulas of F that have none yet
HistPad(h, F) == h \o [i \in 1..(Len(F) - Len(h)) |-> NoHist]

FormulaInit ==
  /\ heap = <<>>
  /\ formulas = <<>>
  /\ predefined = [n \in Names |-> NULL]
  /\ got = <<>>
  /\ ctorLog = <<>>
  /\ hist = <<>>
  /\ last = [op |-> "init", f |-> NULL]

\* Formula()
DoNewFormula(max) ==
  /\ Len(formulas) < max
  /\ formulas' = Append(formulas, NewFormula)
  /\ hist' = Append(hist, NoHist)
  /\ last' = [op |-> "new", f |-> Len(formulas) + 1]
  /\ UNCHANGED <<heap, predefined, got, ctorLog>>

\* f->add(el) with a newly built atom el
DoAdd(f, what, max) ==
  /\ Len(heap) < max
  /\ LET H1 == Alloc(heap, what)
         el == Len(H1)
         m == Formula_add(H1, formulas, f, el)
     IN /\ heap' = m.heap
        /\ formulas' = m.formulas
        /\ hist' = [hist EXCEPT ![f].atoms =
                      Append(@, [atom |-> el,
                                 elements |-> IF IsRow(H1, el)
                                              THEN H1[el].elements ELSE <<>>])]
  /\ last' = [op |-> "add", f |-> f]
  /\ UNCHANGED <<predefined, got, ctorLog>>

\* f->add(nullptr)
DoAddNull(f) ==
  /\ LET m == Formula_add(heap, formulas, f, NULL)
     IN heap' = m.heap /\ formulas' = m.formulas
  /\ last' = [op |-> "addNull", f |-> f]
  /\ UNCHANGED <<predefined, got, ctorLog, hist>>

\* new Formula(f)
DoCopy(f) ==
  /\ Len(formulas) < MaxFormulas
  /\ Len(heap) < MaxAtoms
  /\ LET m == Formula_copy(heap, formulas, f)
     IN heap' = m.heap /\ formulas' = m.formulas
  /\ hist' = Append(hist, [atoms |-> <<>>, copyOf |-> f])
  /\ last' = [op |-> "copy", f |-> Len(formulas) + 1]
  /\ UNCHANGED <<predefined, got, ctorLog>>

\* f->setBackground(c)
DoSetBackground(f, c) ==
  /\ Len(heap) < MaxAtoms
  /\ LET m == Formula_setBackground(heap, formulas, f, c)
     IN heap' = m.heap /\ formulas' = m.formulas
  /\ last' = [op |-> "setBackground", f |-> f]
  /\ UNCHANGED <<predefined, got, ctorLog, hist>>

\* f->setColor(c)
DoSetColor(f, c) ==
  /\ Len(heap) < MaxAtoms
  /\ LET m == Formula_setColor(heap, formulas, f, c)
     IN heap' = m.heap /\ formulas' = m.formulas
  /\ last' = [op |-> "setColor", f |-> f]
  /\ UNCHANGED <<predefined, got, ctorLog, hist>>

\* f->setFixedTypes(left, right)
DoSetFixedTypes(f, left, right) ==
  /\ Len(heap) < MaxAtoms
  /\ LET m == Formula_setFixedTypes(heap, formulas, f, left, right)
     IN heap' = m.heap /\ formulas' = m.formulas
  /\ last' = [op |-> "setFixedTypes", f |-> f]
  /\ UNCHANGED <<predefined, got, ctorLog, hist>>

\* the LaTeX strings handed to the constructors
Latexes == {<<>>, <<"ord">>, <<"err">>, <<"ord", "err">>, <<"ord", "bin">>}

\* Formula(tp, latex, ...) with tp.isPartial() = partial
DoConstruct(ctor, partial, latex) ==
  /\ Len(ctorLog) < MaxCtors
  /\ LET r == Formula_fromParser(heap, formulas, ctor, partial, latex)
     IN /\ heap' = r.heap
        /\ formulas' = r.formulas
        /\ hist' = HistPad(hist, r.formulas)
        /\ ctorLog' = Append(ctorLog,
                        [ctor |-> ctor, partial |-> partial, latex |-> latex,
                         threw |-> r.threw, outcome |-> r.outcome, f |-> r.f])
        /\ last' = [op |-> "construct", f |-> r.f]
  /\ UNCHANGED <<predefined, got>>

\* Formula::get(name)
DoGet(name) ==
  /\ Len(got) < MaxGets
  /\ LET r == Formula_get(heap, formulas, predefined, name)
     IN /\ heap' = r.heap
        /\ formulas' = r.formulas
        /\ predefined' = r.predefined
        /\ hist' = HistPad(hist, r.formulas)
        /\ got' = Append(got, [name |-> name, outcome |-> r.outcome, f |-> r.f,
                               before |-> predefined])
        /\ last' = [op |-> "get", f |-> r.f]
  /\ UNCHANGED ctorLog

(***************************************************************************)
(* The parts of the state a specification does not use stay as built.      *)
(***************************************************************************)
LayoutIdle == layoutLog = <<>>

DivIdle == divisor = 1 /\ dividend = 0 /\ results = <<>>

ResizeIdle == rsz = <<>> /\ rszOut = <<>>

ArrayIdle == arr = <<>>

AtomIdle == subject = <<>> /\ laid = <<>>

LibIdle == lib = <<>>

OthersIdle == LayoutIdle /\ DivIdle /\ ResizeIdle /\ ArrayIdle /\ AtomIdle /\ LibIdle

OthersUnchanged == UNCHANGED <<libVars, layoutVars, divVars, resizeVars, arrayVars, atomVars>>

(***************************************************************************)
(* SpecGet: callers look up predefined formulas and go on building on what *)
(* they were handed.                                                       *)
(***************************************************************************)
\* the formulas Formula::get has handed out
Handed == {got[i].f : i \in DOMAIN got} \ {NULL}

GetStep == (\E n \in Names : DoGet(n)) /\ OthersUnchanged

GetAddStep == (\E f \in Handed : DoAdd(f, "ord", MaxAtoms)) /\ OthersUnchanged

GetColorStep == (\E f \in Handed : DoSetColor(f, "red")) /\ OthersUnchanged

InitGet == FormulaInit /\ OthersIdle

NextGet == GetStep \/ GetAddStep \/ GetColorStep

SpecGet == InitGet /\ [][NextGet]_vars

\* C1: Formula::get never hands two callers the same object: the formulas (and
\* their root atoms) returned by any two calls are distinct objects, and none
\* of them is the entry stored in the predefined-formula registry.
C1_GetNeverAliases ==
  /\ \A i, j \in DOMAIN got :
       (i # j /\ got[i].f # NULL /\ got[j].f # NULL)
         => /\ got[i].f # got[j].f
            /\ formulas[got[i].f].root # formulas[got[j].f].root
  /\ \A i \in DOMAIN got : \A n \in Names :
       got[i].f # NULL => predefined[n] # got[i].f

(***************************************************************************)
(* SpecCtor: formulas are constructed from a parser and a LaTeX string.    *)
(***************************************************************************)
ConstructStep ==
  /\ \E ctor \in ParserCtors, partial \in BOOLEAN, latex \in Latexes :
       DoConstruct(ctor, partial, latex)
  /\ OthersUnchanged

InitCtor == FormulaInit /\ OthersIdle

NextCtor == ConstructStep

SpecCtor == InitCtor /\ [][NextCtor]_vars

\* C4: in partial-parse mode every parser-taking constructor recovers from a
\* parse error: it returns normally and the formula's root is a non-null atom;
\* in non-partial mode the parse error leaves the constructor.
C4_PartialCtorRecovers ==
  \A i \in DOMAIN ctorLog :
    LET c == ctorLog[i]
    IN c.threw =>
         IF c.partial
         THEN c.outcome = "returned" /\ formulas[c.f].root # NULL
         ELSE c.outcome = "thrown"

(***************************************************************************)
(* SpecAdd: formulas are built from nothing by Formula::add alone.         *)
(***************************************************************************)
AddNewFormulaStep == DoNewFormula(MaxAddFormulas) /\ OthersUnchanged

AddStep ==
  /\ \E f \in DOMAIN formulas, what \in AtomKinds : DoAdd(f, what, MaxAddAtoms)
  /\ OthersUnchanged

AddNullStep == (\E f \in DOMAIN formulas : DoAddNull(f)) /\ OthersUnchanged

InitAdd == FormulaInit /\ OthersIdle

NextAdd == AddNewFormulaStep \/ AddStep \/ AddNullStep

SpecAdd == InitAdd /\ [][NextAdd]_vars

\* Atom::rightType(): a typed atom's right type, any other atom's own type
rightType(H, a) ==
  CASE H[a].kind = "Typed" -> H[a].right
    [] H[a].kind = "Symbol" -> H[a].type
    [] OTHER -> "ordinary"

\* the children of a row, a line-break marker shown as NULL
ElementsView(H, row) ==
  [i \in DOMAIN H[row].elements |->
     IF H[H[row].elements[i]].kind = "BreakMark" THEN NULL
     ELSE H[row].elements[i]]

\* whether the claim expects a line-break marker after atom a
BreaksAfter(H, a) == rightType(H, a) \in {"binaryOperator", "relation"}

\* whether Formula::add puts a line-break marker after atom a
BreaksAfterTyped(H, a) == H[a].kind = "Typed" /\ BreaksAfter(H, a)

\* the atoms A[i..], each followed by a marker where the claim expects one
RECURSIVE Marked(_, _, _)
Marked(H, A, i) ==
  IF i > Len(A) THEN <<>>
  ELSE <<A[i].atom>> \o (IF BreaksAfter(H, A[i].atom) THEN <<NULL>> ELSE <<>>)
       \o Marked(H, A, i + 1)

\* the atoms A[i..], each typed atom with a binary-operator or relation right
\* type followed by a marker
RECURSIVE MarkedTyped(_, _, _)
MarkedTyped(H, A, i) ==
  IF i > Len(A) THEN <<>>
  ELSE <<A[i].atom>>
       \o (IF BreaksAfterTyped(H, A[i].atom) THEN <<NULL>> ELSE <<>>)
       \o MarkedTyped(H, A, i + 1)

\* C9 as stated: after the first add the root is the atom itself; after every
\* later add the root is a Row whose children are the added atoms in insertion
\* order, with a line-break marker right after each added atom whose right type
\* is binary-operator or relation.
C9_AddAsClaimed ==
  \A f \in DOMAIN formulas :
    LET A == hist[f].atoms
        root == formulas[f].root
    IN /\ Len(A) = 0 => root = NULL
       /\ Len(A) = 1 => root = A[1].atom
       /\ Len(A) >= 2 => /\ IsRow(heap, root)
                         /\ ElementsView(heap, root) = Marked(heap, A, 1)

\* C9 amended: after the first add the root is the atom itself, unchanged; after
\* every later add the root is a Row: the first atom itself when that is a Row
\* (the later atoms are appended to its own children), a new Row starting with
\* the first atom otherwise; the later atoms follow in insertion order, and a
\* line-break marker follows each later atom that is a TypedAtom whose right
\* type is binary-operator or relation (never the first atom, never an atom of
\* another kind); add(null) changes nothing.
C9_AddBuildsRow ==
  \A f \in DOMAIN formulas :
    LET A == hist[f].atoms
        root == formulas[f].root
    IN /\ Len(A) = 0 => root = NULL
       /\ Len(A) = 1 =>
            /\ root = A[1].atom
            /\ IsRow(heap, root) => heap[root].elements = A[1].elements
       /\ Len(A) >= 2 =>
            /\ IsRow(heap, root)
            /\ IsRow(heap, A[1].atom) => root = A[1].atom
            /\ ~IsRow(heap, A[1].atom) => \A i \in DOMAIN A : root # A[i].atom
            /\ ElementsView(heap, root) =
                 (IF IsRow(heap, A[1].atom) THEN A[1].elements
                  ELSE <<A[1].atom>>) \o MarkedTyped(heap, A, 2)

\* a formula that got a typed binary-operator atom as a later atom, then one
\* more atom, and an add(null) as its last operation
C9_Witness ==
  \E f \in DOMAIN formulas :
    /\ Len(hist[f].atoms) >= 3
    /\ BreaksAfterTyped(heap, hist[f].atoms[2].atom)
    /\ last = [op |-> "addNull", f |-> f]

(***************************************************************************)
(* SpecCopy: formulas are built, copied with the copying constructor, and  *)
(* both the copies and the originals are changed afterwards.               *)
(***************************************************************************)
NewFormulaStep == DoNewFormula(MaxFormulas) /\ OthersUnchanged

CopyAddStep ==
  /\ \E f \in DOMAIN formulas, what \in {"ord", "row"} :
       DoAdd(f, what, MaxAtoms)
  /\ OthersUnchanged

CopyStep == (\E f \in DOMAIN formulas : DoCopy(f)) /\ OthersUnchanged

SetBackgroundStep ==
  /\ \E f \in DOMAIN formulas, c \in {TRANS, "red"} : DoSetBackground(f, c)
  /\ OthersUnchanged

SetColorStep ==
  /\ \E f \in DOMAIN formulas : DoSetColor(f, "red")
  /\ OthersUnchanged

SetFixedTypesStep ==
  /\ \E f \in DOMAIN formulas : DoSetFixedTypes(f, "ordinary", "relation")
  /\ OthersUnchanged

InitCopy == FormulaInit /\ OthersIdle

NextCopy ==
  \/ NewFormulaStep
  \/ CopyAddStep
  \/ CopyStep
  \/ SetBackgroundStep
  \/ SetColorStep
  \/ SetFixedTypesStep

SpecCopy == InitCopy /\ [][NextCopy]_vars

\* C10: a formula built as a copy of another is independent of it: a step on
\* one formula (the construction of the copy included) leaves every other
\* formula's root and whole atom tree, the children of its rows included, as
\* they were.
C10_CopyIndependent ==
  [][\A h \in DOMAIN formulas :
       h # last'.f =>
         /\ formulas'[h] = formulas[h]
         /\ Tree(heap', formulas'[h].root) = Tree(heap, formulas[h].root)]_vars

\* a copy of a formula whose root is a row, with atoms added to the copy and
\* to the original after the copy was made
C10_Witness ==
  \E g, h \in DOMAIN formulas :
    /\ hist[g].copyOf = h
    /\ Len(hist[g].atoms) > 0
    /\ last = [op |-> "add", f |-> h]
    /\ IsRow(heap, formulas[h].root)
    /\ IsRow(heap, formulas[g].root)
    /\ Len(heap[formulas[g].root].elements) > Len(heap[formulas[h].root].elements)

(***************************************************************************)
(* Boxes.  A box is a value [width, height, depth, shift, children, space, *)
(* ph]: ph is the address of the MiddleAtom whose placeholder box this is  *)
(* (NULL for any other box), which stands for the identity of that box.    *)
(* Lengths are whole numbers; shift is kept in halves of the unit, so that *)
(* the halving of an extent in the centring of a box is exact.             *)
(***************************************************************************)
Box(w, h, d, s, children, space, ph) ==
  [width |-> w, height |-> h, depth |-> d, shift |-> s,
   children |-> children, space |-> space, ph |-> ph]

\* StrutBox(w, h, d, s)
StrutBox(w, h, d, s) == Box(w, h, d, s, <<>>, TRUE, NULL)

\* StrutBox::empty()
StrutBox_empty == StrutBox(0, 0, 0, 0)

\* Box::vlen()
vlen(b) == b.height + b.depth

Max(a, b) == IF a >= b THEN a ELSE b

Min(a, b) == IF a <= b THEN a ELSE b

\* HBox(): an empty horizontal box
HBox_new == Box(0, 0, 0, 0, <<>>, FALSE, NULL)

\* HBox::add(b): widths add up, height and depth are the largest of the children
HBox_add(hb, b) ==
  [hb EXCEPT !.width = @ + b.width,
             !.height = IF hb.children = <<>> THEN b.height ELSE Max(@, b.height),
             !.depth = IF hb.children = <<>> THEN b.depth ELSE Max(@, b.depth),
             !.children = Append(@, b)]

\* Box::replaceFirst(from, to) with from the placeholder of middle m: the first
\* child that is that placeholder is replaced, the box's own geometry stays
replaceFirst(b, m, to) ==
  LET hits == {i \in DOMAIN b.children : b.children[i].ph = m}
  IN IF hits = {} THEN b
     ELSE LET i == CHOOSE k \in hits : \A j \in hits : k <= j
          IN [b EXCEPT !.children[i] = to]

\* the measured geometry of a box
Geometry(b) ==
  [width |-> b.width, height |-> b.height, depth |-> b.depth, shift |-> b.shift]

(***************************************************************************)
(* The environment: [style, scale], and the font's math constants          *)
(***************************************************************************)
\* env.axisHeight(), in font units
AxisHeight == 1

Envs == [style : {"text"}, scale : {1, 2}]

\* the axis height at the environment's scale
Axis(env) == AxisHeight * env.scale

\* the extents of the delimiter variants follow each other in this step
DelimStep == 2

\* tex::createVDelim(sym, env, height, true): the smallest variant of the
\* delimiter whose extent is at least height, as wide as the scale
createVDelim(sym, env, height) ==
  LET step == DelimStep * env.scale
      v == ((height + step - 1) \div step) * step
      h == Min(v, v \div 2 + Axis(env))
  IN Box(env.scale, h, v - h, 0, <<>>, FALSE, NULL)

\* Glue::get(ltype, rtype, env): a glue box as wide as the scale
Glue_get(env) == Box(env.scale, 0, 0, 0, <<>>, TRUE, NULL)

\* the centring done by FencedAtom::createBox: the box's middle goes on the axis
\* (the shift in halves: twice -(vlen / 2 - height) - axis)
center(b, axis) == [b EXCEPT !.shift = -(vlen(b) - 2 * b.height) - 2 * axis]

(***************************************************************************)
(* Atoms of the layout code                                                *)
(***************************************************************************)
\* a character atom with its glyph's metrics at scale 1
CharAtom(w, h, d) == [kind |-> "Char", width |-> w, height |-> h, depth |-> d]

\* the metrics of the letter M of the math font
CharAtom_M == CharAtom(8, 6, 0)

\* PlaceholderAtom(width, height, depth, shift)
PlaceholderAtom(w, h, d, s) ==
  [kind |-> "Placeholder", width |-> w, height |-> h, depth |-> d, shift |-> s]

\* PhantomAtom(el, w, h, d) over the row elements
PhantomAtom(elements, w, h, d) ==
  [kind |-> "Phantom", elements |-> elements, w |-> w, h |-> h, d |-> d]

\* ScriptsAtom(base, sub, sup)
ScriptsAtom(base, sub, sup) ==
  [kind |-> "Scripts", base |-> base, sub |-> sub, sup |-> sup, align |-> "none"]

\* SideSetsAtom(base, left, right)
SideSetsAtom(base, left, right) ==
  [kind |-> "SideSets", base |-> base, left |-> left, right |-> right]

\* FencedAtom(base, l, r, m)
FencedAtom(base, l, r, m) ==
  [kind |-> "Fenced", base |-> base, l |-> l, r |-> r, m |-> m]

\* the result of a createBox call: the heap it leaves and the box it returns
Laid(H, b) == [heap |-> H, box |-> b]

(***************************************************************************)
(* createBox.  Every method takes the heap, the atom's address and the     *)
(* environment, and gives the heap it leaves and the box it returns.       *)
(***************************************************************************)
RECURSIVE createBox(_, _, _)
RECURSIVE RowAtom_createBoxFrom(_, _, _, _, _)
RECURSIVE FencedAtom_middles(_, _, _, _, _, _)

\* MiddleAtom::_placeholder of the middle at address a
MiddleAtom_placeholder(a) == Box(0, 0, 0, 0, <<>>, TRUE, a)

\* MiddleAtom::createBox
MiddleAtom_createBox(H, a, env) ==
  IF H[a].height = 0 THEN Laid(H, MiddleAtom_placeholder(a))
  ELSE Laid(H, createVDelim(H[a].sym, env, H[a].height))

\* CharAtom::createBox: the glyph's metrics at the environment's scale
CharAtom_createBox(H, a, env) ==
  Laid(H, Box(H[a].width * env.scale, H[a].height * env.scale,
              H[a].depth * env.scale, 0, <<>>, FALSE, NULL))

\* PlaceholderAtom::createBox
PlaceholderAtom_createBox(H, a, env) ==
  Laid(H, StrutBox(H[a].width, H[a].height, H[a].depth, H[a].shift))

\* ScriptsAtom::createBox
ScriptsAtom_createBox(H, a, env) == Laid(H, StrutBox_empty)

\* RowAtom::createBox from child i on: the children's boxes in order in one
\* horizontal box
RowAtom_createBoxFrom(H, elems, i, env, hb) ==
  IF i > Len(elems) THEN Laid(H, hb)
  ELSE LET r == createBox(H, elems[i], env)
       IN RowAtom_createBoxFrom(r.heap, elems, i + 1, env, HBox_add(hb, r.box))

\* PhantomAtom::createBox
PhantomAtom_createBox(H, a, env) ==
  LET r == createBox(H, H[a].elements, env)
      res == r.box
  IN Laid(r.heap,
          StrutBox(IF H[a].w THEN res.width ELSE 0,
                   IF H[a].h THEN res.height ELSE 0,
                   IF H[a].d THEN res.depth ELSE 0,
                   res.shift))

\* the loop of FencedAtom::createBox over the middles ms[i..]: each gets the
\* height h, is laid out, centred, shifted back by the base's shift and put in
\* the place of its placeholder in the base box
FencedAtom_middles(H, ms, i, env, base, h) ==
  IF i > Len(ms) THEN Laid(H, base)
  ELSE LET H1 == [H EXCEPT ![ms[i]].height = h]
           r == createBox(H1, ms[i], env)
           b == center(r.box, Axis(env))
           b1 == [b EXCEPT !.shift = @ - base.shift]
       IN FencedAtom_middles(r.heap, ms, i + 1, env,
                             replaceFirst(base, ms[i], b1), h)

\* whether a delimiter name stands for a delimiter to draw
IsDelim(name) == name # "" /\ name # "."

\* hbox->add(b) under a condition
HBox_addIf(hb, cond, b) == IF cond THEN HBox_add(hb, b) ELSE hb

\* the end of FencedAtom::createBox: the left delimiter and its glue, the
\* base, the glue and the right delimiter, in one horizontal box
FencedAtom_hbox(l, r, env, h, base) ==
  HBox_addIf(
    HBox_addIf(
      HBox_add(
        HBox_addIf(
          HBox_addIf(HBox_new, IsDelim(l),
                     center(createVDelim(l, env, h), Axis(env))),
          IsDelim(l) /\ ~base.space, Glue_get(env)),
        base),
      IsDelim(r) /\ ~base.space, Glue_get(env)),
    IsDelim(r), center(createVDelim(r, env, h), Axis(env)))

\* FencedAtom::createBox once the middles are laid out into the base box
FencedAtom_assemble(l, r, env, h, rm) ==
  Laid(rm.heap, FencedAtom_hbox(l, r, env, h, rm.box))

\* FencedAtom::createBox once the base box is centred: its extent is the
\* height of the middles and of the delimiters
FencedAtom_centred(H, a, env, base) ==
  FencedAtom_assemble(H[a].l, H[a].r, env, vlen(base),
                      FencedAtom_middles(H, H[a].m, 1, env, base, vlen(base)))

\* FencedAtom::createBox once the base is laid out
FencedAtom_withBase(a, env, rb) ==
  FencedAtom_centred(rb.heap, a, env, center(rb.box, Axis(env)))

\* FencedAtom::createBox
FencedAtom_createBox(H, a, env) ==
  IF H[a].base = NULL THEN Laid(H, StrutBox_empty)
  ELSE FencedAtom_withBase(a, env,
         createBox(IF IsRow(H, H[a].base)
                   THEN [H EXCEPT ![H[a].base].breakable = FALSE] ELSE H,
                   H[a].base, env))

\* the heap after SideSetsAtom::createBox gave a side-set atom without a base
\* a phantom of the letter M as its base
SideSetsAtom_phantomBase(H, a) ==
  IF H[a].base # NULL THEN H
  ELSE LET Hc == Append(H, CharAtom_M)
           Hr == Append(Hc, RowAtom(Hc, Len(Hc)))
           Hp == Append(Hr, PhantomAtom(Len(Hr), FALSE, TRUE, TRUE))
       IN [Hp EXCEPT ![a].base = Len(Hp)]

\* dynamic_cast<ScriptsAtom*>(s.get())
AsScriptsAtom(H, s) == IF s # NULL /\ H[s].kind = "Scripts" THEN s ELSE NULL

\* the heap after a script atom without a base got the placeholder pa as its
\* base, the left one also its alignment
SideSetsAtom_setBases(H, l, r, pa) ==
  [i \in DOMAIN H |->
     IF i = l /\ H[i].base = NULL
       THEN [H[i] EXCEPT !.base = pa, !.align = "right"]
     ELSE IF i = r /\ H[i].base = NULL
       THEN [H[i] EXCEPT !.base = pa]
     ELSE H[i]]

\* the end of SideSetsAtom::createBox, after the right side is laid out
SideSetsAtom_afterRight(hasRight, hb, rr) ==
  Laid(rr.heap, HBox_addIf(hb, hasRight, rr.box))

\* SideSetsAtom::createBox after the left side is laid out: the left box and
\* the base box go into the horizontal box, then the right side is laid out
SideSetsAtom_afterLeft(left, right, env, bb, rl) ==
  SideSetsAtom_afterRight(
    right # NULL,
    HBox_add(HBox_addIf(HBox_new, left # NULL, rl.box), bb),
    IF right # NULL THEN createBox(rl.heap, right, env)
    ELSE Laid(rl.heap, StrutBox_empty))

\* SideSetsAtom::createBox once the scripts have their bases
SideSetsAtom_sides(H, a, env, bb) ==
  SideSetsAtom_afterLeft(
    H[a].left, H[a].right, env, bb,
    IF H[a].left # NULL THEN createBox(H, H[a].left, env)
    ELSE Laid(H, StrutBox_empty))

\* SideSetsAtom::createBox once the placeholder atom exists, at the end of H
SideSetsAtom_withPlaceholder(H, a, env, bb) ==
  SideSetsAtom_sides(
    SideSetsAtom_setBases(H, AsScriptsAtom(H, H[a].left),
                          AsScriptsAtom(H, H[a].right), Len(H)),
    a, env, bb)

\* SideSetsAtom::createBox once the base is laid out
SideSetsAtom_withBase(a, env, rb) ==
  SideSetsAtom_withPlaceholder(
    Append(rb.heap,
           PlaceholderAtom(0, rb.box.height, rb.box.depth, rb.box.shift)),
    a, env, rb.box)

\* SideSetsAtom::createBox once it has a base
SideSetsAtom_layBase(H, a, env) ==
  SideSetsAtom_withBase(a, env, createBox(H, H[a].base, env))

\* SideSetsAtom::createBox
SideSetsAtom_createBox(H, a, env) ==
  SideSetsAtom_layBase(SideSetsAtom_phantomBase(H, a), a, env)

\* Atom::createBox, by the atom's kind
createBox(H, a, env) ==
  CASE H[a].kind = "Char" -> CharAtom_createBox(H, a, env)
    [] H[a].kind = "Placeholder" -> PlaceholderAtom_createBox(H, a, env)
    [] H[a].kind = "Middle" -> MiddleAtom_createBox(H, a, env)
    [] H[a].kind = "Row" ->
         RowAtom_createBoxFrom(H, H[a].elements, 1, env, HBox_new)
    [] H[a].kind = "Phantom" -> PhantomAtom_createBox(H, a, env)
    [] H[a].kind = "Scripts" -> ScriptsAtom_createBox(H, a, env)
    [] H[a].kind = "Fenced" -> FencedAtom_createBox(H, a, env)
    [] H[a].kind = "SideSets" -> SideSetsAtom_createBox(H, a, env)

(***************************************************************************)
(* SpecLayout: a set of atom trees is built once and laid out again and    *)
(* again, in any order and in any environment.                             *)
(***************************************************************************)
MaxLayouts == 3

\* the atoms as built: a fence \left( x \middle| y \right) over a row, and a
\* side-set construction without a base, with scripts on both sides
LayoutHeap ==
  << CharAtom(4, 6, 2),                      \* 1: x
     MiddleAtom,                             \* 2: \middle|
     CharAtom(6, 4, 0),                      \* 3: y
     [kind |-> "Row", elements |-> <<1, 2, 3>>, breakable |-> TRUE],
     FencedAtom(4, "lbrack", "rbrack", <<2>>),   \* 5
     CharAtom(2, 2, 0),                      \* 6: a script
     ScriptsAtom(NULL, 6, NULL),             \* 7: the left scripts
     CharAtom(2, 2, 0),                      \* 8: a script
     ScriptsAtom(NULL, NULL, 8),             \* 9: the right scripts
     SideSetsAtom(NULL, 7, 9),               \* 10
     FencedAtom(NULL, ".", "", <<>>) >>      \* 11: a fence without a base

\* the atoms callers lay out
LayoutRoots == {2, 4, 5, 10, 11}

InitLayout ==
  /\ heap = LayoutHeap
  /\ formulas = <<>>
  /\ predefined = [n \in Names |-> NULL]
  /\ got = <<>>
  /\ ctorLog = <<>>
  /\ hist = <<>>
  /\ last = [op |-> "init", f |-> NULL]
  /\ layoutLog = <<>>
  /\ DivIdle /\ ResizeIdle /\ ArrayIdle /\ AtomIdle /\ LibIdle

\* a->createBox(env)
DoCreateBox(a, env) ==
  /\ Len(layoutLog) < MaxLayouts
  /\ LET r == createBox(heap, a, env)
     IN /\ heap' = r.heap
        /\ layoutLog' = Append(layoutLog,
                          [atom |-> a, env |-> env, box |-> Geometry(r.box),
                           whole |-> r.box])
  /\ last' = [op |-> "createBox", f |-> a]
  /\ UNCHANGED <<formulas, predefined, got, ctorLog, hist>>
  /\ UNCHANGED <<libVars, divVars, resizeVars, arrayVars, atomVars>>

CreateBoxStep == \E a \in LayoutRoots, env \in Envs : DoCreateBox(a, env)

NextLayout == CreateBoxStep

SpecLayout == InitLayout /\ [][NextLayout]_vars

\* C2: layout never mutates the atom tree: the fields of the atom laid out and
\* of all its descendants are the same after createBox as before it.
C2_LayoutLeavesAtoms ==
  [][\A a \in LayoutRoots :
       last'.f = a => Tree(heap', a) = Tree(heap, a)]_vars

\* C3: layout is deterministic and history-independent: two createBox calls on
\* the same atom tree with equal environments return boxes of equal width,
\* height, depth and shift whatever was laid out in between, and each call
\* returns what the same call returns on the atoms as built.
C3_LayoutDeterministic ==
  /\ \A i, j \in DOMAIN layoutLog :
       (layoutLog[i].atom = layoutLog[j].atom
          /\ layoutLog[i].env = layoutLog[j].env)
         => layoutLog[i].box = layoutLog[j].box
  /\ \A i \in DOMAIN layoutLog :
       layoutLog[i].box =
         Geometry(createBox(LayoutHeap, layoutLog[i].atom, layoutLog[i].env).box)

(***************************************************************************)
(* LongDivAtom::calculate.  A string is a sequence of characters.          *)
(***************************************************************************)
MaxDivisor == 12

MaxDividend == 220

DigitChars == <<"0", "1", "2", "3", "4", "5", "6", "7", "8", "9">>

\* the decimal numeral of a natural number
RECURSIVE NatString(_)
NatString(n) ==
  IF n < 10 THEN <<DigitChars[n + 1]>>
  ELSE Append(NatString(n \div 10), DigitChars[(n % 10) + 1])

\* tostring(long)
tostring(n) == IF n < 0 THEN <<"-">> \o NatString(-n) ELSE NatString(n)

\* c - '0' for a character c of a numeral ('-' is three places before '0')
CharMinusZero(c) ==
  IF c = "-" THEN -3 ELSE (CHOOSE d \in 1..10 : DigitChars[d] = c) - 1

\* pow(10, e)
RECURSIVE pow10(_)
pow10(e) == IF e <= 0 THEN 1 ELSE 10 * pow10(e - 1)

\* b as computed with the exponent one too large
LongDivAtom_b_offByOne(x, len, i) == CharMinusZero(x[i + 1]) * pow10(len - i)

\* long b = (x[i] - '0') * pow(10, len - i - 1), for the 0-based index i
LongDivAtom_b(x, len, i) == CharMinusZero(x[i + 1]) * pow10(len - i - 1)

\* the loop of LongDivAtom::calculate from index i on
RECURSIVE LongDivAtom_loop(_, _, _, _, _, _)
LongDivAtom_loop(x, len, i, dvs, remaining, res) ==
  IF i >= len THEN res
  ELSE LET b == LongDivAtom_b(x, len, i)
           product == b * dvs
           rem == remaining - product
       IN LongDivAtom_loop(x, len, i + 1, dvs, rem,
                           res \o <<tostring(product), tostring(rem)>>)

\* LongDivAtom::calculate(results) for _divisor = dvs and _dividend = dvd
LongDivAtom_calculate(dvs, dvd) ==
  LET quotient == dvd \div dvs
      x == tostring(quotient)
  IN LongDivAtom_loop(x, Len(x), 0, dvs, dvd,
                      <<tostring(quotient), tostring(dvd)>>)

\* LongDivAtom(divisor, dividend), not yet calculated
InitLongDiv ==
  /\ divisor \in 1..MaxDivisor
  /\ dividend \in 0..MaxDividend
  /\ results = <<>>
  /\ FormulaInit /\ LayoutIdle /\ ResizeIdle /\ ArrayIdle /\ AtomIdle /\ LibIdle

\* calculate(results) on an empty vector
CalculateStep ==
  /\ results = <<>>
  /\ results' = LongDivAtom_calculate(divisor, dividend)
  /\ UNCHANGED <<divisor, dividend>>
  /\ UNCHANGED <<libVars, formulaVars, layoutVars, resizeVars, arrayVars, atomVars>>

NextLongDiv == CalculateStep

SpecLongDiv == InitLongDiv /\ [][NextLongDiv]_vars

\* the number a numeral of digits stands for
RECURSIVE NumeralValue(_)
NumeralValue(str) ==
  IF str = <<>> THEN 0
  ELSE 10 * NumeralValue(SubSeq(str, 1, Len(str) - 1))
       + CHOOSE d \in 0..9 : DigitChars[d + 1] = str[Len(str)]

IsNumeral(str) ==
  /\ str # <<>>
  /\ \A i \in DOMAIN str : \E d \in 1..10 : DigitChars[d] = str[i]
  /\ Len(str) > 1 => str[1] # "0"

\* the number of decimal digits of q
RECURSIVE NumDigits(_)
NumDigits(q) == IF q < 10 THEN 1 ELSE 1 + NumDigits(q \div 10)

\* the i-th partial product of the paper division of dvd by dvs
PartialProduct(dvs, dvd, i) ==
  LET q == dvd \div dvs
      k == NumDigits(q)
  IN ((q \div pow10(k - i)) % 10) * pow10(k - i) * dvs

\* the remainder left after the first i partial products
RECURSIVE RemainderAfter(_, _, _)
RemainderAfter(dvs, dvd, i) ==
  IF i = 0 THEN dvd
  ELSE RemainderAfter(dvs, dvd, i - 1) - PartialProduct(dvs, dvd, i)

\* C5: for divisor >= 1 and dividend >= 0, calculate gives the numerals of
\* [quotient, dividend, p1, r1, ..., pk, rk], k the number of digits of the
\* quotient, p_i the i-th quotient digit times 10^(k-i) times the divisor,
\* r_i = r_(i-1) - p_i, every r_i >= 0, r_k = dividend mod divisor; and for
\* divisor 3, dividend 7 it gives "2", "7", "6", "1".
C5_LongDivTrace ==
  results # <<>> =>
    LET q == dividend \div divisor
        k == NumDigits(q)
    IN /\ Len(results) = 2 + 2 * k
       /\ \A j \in DOMAIN results : IsNumeral(results[j])
       /\ NumeralValue(results[1]) = q
       /\ NumeralValue(results[2]) = dividend
       /\ \A i \in 1..k :
            /\ NumeralValue(results[2 * i + 1]) = PartialProduct(divisor, dividend, i)
            /\ NumeralValue(results[2 * i + 2]) = RemainderAfter(divisor, dividend, i)
            /\ RemainderAfter(divisor, dividend, i) >= 0
       /\ NumeralValue(results[2 * k + 2]) = dividend % divisor
       /\ (divisor = 3 /\ dividend = 7)
            => results = << <<"2">>, <<"7">>, <<"6">>, <<"1">> >>

\* a division with a three-digit quotient, a zero digit in it and a remainder
C5_Witness ==
  /\ results # <<>>
  /\ Len(results[1]) = 3
  /\ results[1][2] = "0"
  /\ dividend % divisor # 0

(***************************************************************************)
(* CumulativeScriptsAtom                                                   *)
(***************************************************************************)
MaxScriptOps == 3

\* a CumulativeScriptsAtom object: _base, and the rows _sub and _sup
CumulativeAtom(base, sub, sup) ==
  [kind |-> "Cumulative", base |-> base, sub |-> sub, sup |-> sup]

\* the constructor without its two merging branches: a new pair of rows over
\* whatever the base is
CumulativeScriptsAtom_nesting(H, base, sub, sup) ==
  LET H1 == Append(H, RowAtom(H, sup))
      H2 == Append(H1, RowAtom(H1, sub))
  IN Append(H2, CumulativeAtom(base, Len(H2), Len(H1)))

\* CumulativeScriptsAtom::CumulativeScriptsAtom(base, sub, sup): the heap with
\* the new atom as its last object
CumulativeScriptsAtom(H, base, sub, sup) ==
  IF H[base].kind = "Cumulative"
  THEN LET H1 == RowAtom_add(H, H[base].sup, sup)
           H2 == RowAtom_add(H1, H[base].sub, sub)
       IN Append(H2, CumulativeAtom(H[base].base, H[base].sub, H[base].sup))
  ELSE IF H[base].kind = "Scripts"
  THEN LET H1 == Append(H, RowAtom(H, H[base].sup))
           H2 == Append(H1, RowAtom(H1, H[base].sub))
           H3 == RowAtom_add(H2, Len(H1), sup)
           H4 == RowAtom_add(H3, Len(H2), sub)
       IN Append(H4, CumulativeAtom(H[base].base, Len(H2), Len(H1)))
  ELSE LET H1 == Append(H, RowAtom(H, sup))
           H2 == Append(H1, RowAtom(H1, sub))
       IN Append(H2, CumulativeAtom(base, Len(H2), Len(H1)))

\* CumulativeScriptsAtom::addSuperscript(sup)
CumulativeScriptsAtom_addSuperscript(H, ca, sup) == RowAtom_add(H, H[ca].sup, sup)

\* CumulativeScriptsAtom::addSubscript(sub)
CumulativeScriptsAtom_addSubscript(H, ca, sub) == RowAtom_add(H, H[ca].sub, sub)

\* CumulativeScriptsAtom::getScriptsAtom(): the heap with the new ScriptsAtom
\* as its last object
CumulativeScriptsAtom_getScriptsAtom(H, ca) ==
  Append(H, ScriptsAtom(H[ca].base, H[ca].sub, H[ca].sup))

\* the atoms as built: a base x, a script, and a ScriptsAtom over x built by
\* the parser with that script as its subscript
ScriptsHeap ==
  << SymbolAtom("ordinary"), SymbolAtom("ordinary"), ScriptsAtom(1, 2, NULL) >>

\* the script atoms of a row, of a single atom, or of no atom
AsElements(H, a) ==
  IF a = NULL THEN <<>>
  ELSE IF H[a].kind = "Row" THEN H[a].elements ELSE <<a>>

InitScripts ==
  /\ heap = ScriptsHeap
  /\ formulas = <<>>
  /\ predefined = [n \in Names |-> NULL]
  /\ got = <<>>
  /\ ctorLog = <<>>
  /\ hist = <<>>
  /\ last = [op |-> "init", f |-> NULL]
  /\ OthersIdle

\* the atoms scripts can be attached to
ScriptBases ==
  {a \in DOMAIN heap : a = 1 \/ heap[a].kind \in {"Scripts", "Cumulative"}}

Cumulatives == {a \in DOMAIN heap : heap[a].kind = "Cumulative"}

\* the heap after the caller built the script atom (none when absent)
AllocScript(H, present) == IF present THEN Append(H, SymbolAtom("ordinary")) ELSE H

\* new CumulativeScriptsAtom(base, sub, sup), the scripts newly built or null
DoCumulative(base, hasSub, hasSup) ==
  /\ Len(hist) < MaxScriptOps
  /\ LET H1 == AllocScript(heap, hasSub)
         sub == IF hasSub THEN Len(H1) ELSE NULL
         H2 == AllocScript(H1, hasSup)
         sup == IF hasSup THEN Len(H2) ELSE NULL
         H3 == CumulativeScriptsAtom(H2, base, sub, sup)
     IN /\ heap' = H3
        /\ hist' = Append(hist,
             [op |-> "cumulative", on |-> base, sub |-> sub, sup |-> sup,
              atom |-> Len(H3),
              baseBefore |-> IF heap[base].kind \in {"Scripts", "Cumulative"}
                             THEN heap[base].base ELSE base,
              subBefore |-> IF heap[base].kind \in {"Scripts", "Cumulative"}
                            THEN AsElements(heap, heap[base].sub) ELSE <<>>,
              supBefore |-> IF heap[base].kind \in {"Scripts", "Cumulative"}
                            THEN AsElements(heap, heap[base].sup) ELSE <<>>])
        /\ last' = [op |-> "cumulative", f |-> Len(H3)]
  /\ UNCHANGED <<formulas, predefined, got, ctorLog>>
  /\ OthersUnchanged

\* ca->addSubscript(sub) or ca->addSuperscript(sup) with a newly built script
DoAddScript(ca, isSub) ==
  /\ Len(hist) < MaxScriptOps
  /\ LET H1 == AllocScript(heap, TRUE)
         el == Len(H1)
     IN /\ heap' = IF isSub THEN CumulativeScriptsAtom_addSubscript(H1, ca, el)
                   ELSE CumulativeScriptsAtom_addSuperscript(H1, ca, el)
        /\ hist' = Append(hist,
             [op |-> "addScript", on |-> ca,
              sub |-> IF isSub THEN el ELSE NULL,
              sup |-> IF isSub THEN NULL ELSE el,
              atom |-> ca,
              baseBefore |-> heap[ca].base,
              subBefore |-> AsElements(heap, heap[ca].sub),
              supBefore |-> AsElements(heap, heap[ca].sup)])
  /\ last' = [op |-> "addScript", f |-> ca]
  /\ UNCHANGED <<formulas, predefined, got, ctorLog>>
  /\ OthersUnchanged

\* ca->getScriptsAtom()
DoGetScriptsAtom(ca) ==
  /\ Len(hist) < MaxScriptOps
  /\ heap' = CumulativeScriptsAtom_getScriptsAtom(heap, ca)
  /\ hist' = Append(hist,
       [op |-> "getScriptsAtom", on |-> ca, sub |-> NULL, sup |-> NULL,
        atom |-> Len(heap) + 1,
        baseBefore |-> heap[ca].base,
        subBefore |-> AsElements(heap, heap[ca].sub),
        supBefore |-> AsElements(heap, heap[ca].sup)])
  /\ last' = [op |-> "getScriptsAtom", f |-> Len(heap) + 1]
  /\ UNCHANGED <<formulas, predefined, got, ctorLog>>
  /\ OthersUnchanged

CumulativeStep ==
  \E base \in ScriptBases, hasSub, hasSup \in BOOLEAN :
    DoCumulative(base, hasSub, hasSup)

AddScriptStep == \E ca \in Cumulatives, isSub \in BOOLEAN : DoAddScript(ca, isSub)

GetScriptsAtomStep == \E ca \in Cumulatives : DoGetScriptsAtom(ca)

NextScripts == CumulativeStep \/ AddScriptStep \/ GetScriptsAtomStep

SpecScripts == InitScripts /\ [][NextScripts]_vars

\* the sequence of a script that may be absent
Opt(a) == IF a = NULL THEN <<>> ELSE <<a>>

\* C6: repeated cumulative script attachment never nests: a CumulativeScriptsAtom
\* built on a CumulativeScriptsAtom or a ScriptsAtom keeps that atom's base and
\* has the existing sub and super rows followed by the new sub and super atom;
\* subscript a, then superscript b, then subscript c on one base give the sub
\* row [a, c] and the super row [b]; getScriptsAtom gives one ScriptsAtom over
\* that base and those rows.
C6_CumulativeNeverNests ==
  /\ \A c \in Cumulatives :
       /\ heap[c].base # NULL
       /\ heap[heap[c].base].kind \notin {"Cumulative", "Scripts"}
       /\ IsRow(heap, heap[c].sub) /\ IsRow(heap, heap[c].sup)
  /\ hist # <<>> =>
       LET e == Last(hist)
       IN /\ e.op \in {"cumulative", "addScript"} =>
               /\ heap[e.atom].kind = "Cumulative"
               /\ heap[e.atom].base = e.baseBefore
               /\ heap[heap[e.atom].sub].elements = e.subBefore \o Opt(e.sub)
               /\ heap[heap[e.atom].sup].elements = e.supBefore \o Opt(e.sup)
          /\ e.op = "getScriptsAtom" =>
               /\ heap[e.atom].kind = "Scripts"
               /\ heap[e.atom].base = e.baseBefore
               /\ heap[e.atom].base = heap[e.on].base
               /\ heap[e.atom].sub = heap[e.on].sub
               /\ heap[e.atom].sup = heap[e.on].sup
               /\ heap[heap[e.atom].sub].elements = e.subBefore
               /\ heap[heap[e.atom].sup].elements = e.supBefore
  /\ (/\ Len(hist) = 3
      /\ \A i \in 1..3 : hist[i].op = "cumulative"
      /\ hist[1].on = 1 /\ hist[2].on = hist[1].atom /\ hist[3].on = hist[2].atom
      /\ hist[1].sub # NULL /\ hist[1].sup = NULL
      /\ hist[2].sub = NULL /\ hist[2].sup # NULL
      /\ hist[3].sub # NULL /\ hist[3].sup = NULL)
       => /\ heap[hist[3].atom].base = 1
          /\ heap[heap[hist[3].atom].sub].elements = <<hist[1].sub, hist[3].sub>>
          /\ heap[heap[hist[3].atom].sup].elements = <<hist[2].sup>>

\* subscript a, superscript b and subscript c attached one after the other
C6_Witness ==
  /\ Len(hist) = 3
  /\ \A i \in 1..3 : hist[i].op = "cumulative"
  /\ hist[1].on = 1 /\ hist[2].on = hist[1].atom /\ hist[3].on = hist[2].atom
  /\ hist[1].sub # NULL /\ hist[1].sup = NULL
  /\ hist[2].sub = NULL /\ hist[2].sup # NULL
  /\ hist[3].sub # NULL /\ hist[3].sup = NULL

(***************************************************************************)
(* ResizeAtom::createBox.  A float quotient n / d is kept as the pair      *)
(* [n, d] with n > 0 and d >= 0 (d = 0 is the float +infinity) and         *)
(* compared by cross multiplication.                                       *)
(***************************************************************************)
MaxBoxSize == 3

MaxDimen == 3

Quot(n, d) == [n |-> n, d |-> d]

\* a < b on floats
FLess(a, b) == a.n * b.d < b.n * a.d

\* a == b on floats
FEq(a, b) == a.n * b.d = b.n * a.d

\* std::min(a, b): b when b < a, a otherwise
std_min(a, b) == IF FLess(b, a) THEN b ELSE a

\* std::max(a, b): b when a < b, a otherwise
std_max(a, b) == IF FLess(a, b) THEN b ELSE a

\* ScaleBox(box, sx, sy)
ScaleBox(box, sx, sy) == [scaled |-> TRUE, base |-> box, sx |-> sx, sy |-> sy]

\* a box returned as it is
Unscaled(box) == [scaled |-> FALSE, base |-> box]

\* ResizeAtom::createBox with the locked ratio taken as the larger of the two
ResizeAtom_createBox_max(box, width, height, keepAspectRatio) ==
  IF ~width.valid /\ ~height.valid THEN Unscaled(box)
  ELSE IF width.valid /\ height.valid
  THEN LET sx == Quot(width.size, box.width)
           sy == Quot(height.size, vlen(box))
       IN IF keepAspectRatio
          THEN ScaleBox(box, std_max(sx, sy), std_max(sx, sy))
          ELSE ScaleBox(box, sx, sy)
  ELSE IF width.valid /\ ~height.valid
  THEN ScaleBox(box, Quot(width.size, box.width), Quot(width.size, box.width))
  ELSE ScaleBox(box, Quot(height.size, vlen(box)), Quot(height.size, vlen(box)))

\* ResizeAtom::createBox on the base's box; width and height are the atom's
\* _width and _height: whether each is valid, and its Units::fsize in the
\* environment
ResizeAtom_createBox(box, width, height, keepAspectRatio) ==
  IF ~width.valid /\ ~height.valid THEN Unscaled(box)
  ELSE IF width.valid /\ height.valid
  THEN LET sx == Quot(width.size, box.width)
           sy == Quot(height.size, vlen(box))
       IN IF keepAspectRatio
          THEN ScaleBox(box, std_min(sx, sy), std_min(sx, sy))
          ELSE ScaleBox(box, sx, sy)
  ELSE IF width.valid /\ ~height.valid
  THEN ScaleBox(box, Quot(width.size, box.width), Quot(width.size, box.width))
  ELSE ScaleBox(box, Quot(height.size, vlen(box)), Quot(height.size, vlen(box)))

\* the target dimensions: unset, or set to a positive size
Dimens == {[valid |-> FALSE, size |-> 0]} \cup [valid : {TRUE}, size : 1..MaxDimen]

\* a ResizeAtom and the box of its base
InitResize ==
  /\ rsz \in [box : {Box(w, h, d, 0, <<>>, FALSE, NULL) :
                       w \in 0..MaxBoxSize, h \in 0..MaxBoxSize, d \in 0..1},
              width : Dimens, height : Dimens, keepAspectRatio : BOOLEAN]
  /\ rszOut = <<>>
  /\ FormulaInit /\ LayoutIdle /\ DivIdle /\ ArrayIdle /\ AtomIdle /\ LibIdle

ResizeStep ==
  /\ rszOut = <<>>
  /\ rszOut' = <<ResizeAtom_createBox(rsz.box, rsz.width, rsz.height,
                                      rsz.keepAspectRatio)>>
  /\ UNCHANGED rsz
  /\ UNCHANGED <<libVars, formulaVars, layoutVars, divVars, arrayVars, atomVars>>

NextResize == ResizeStep

SpecResize == InitResize /\ [][NextResize]_vars

\* m is the smaller of a and b
IsMinOf(m, a, b) ==
  /\ FEq(m, a) \/ FEq(m, b)
  /\ ~FLess(a, m) /\ ~FLess(b, m)

\* C7: ResizeAtom::createBox: neither dimension set: the base box itself, no
\* scale wrapper; only width W: sx = sy = W / b.width; only height H:
\* sx = sy = H / b.vlen; both, no aspect lock: sx = W / b.width and
\* sy = H / b.vlen; both with keepAspectRatio: sx = sy = the smaller of the two.
C7_ResizeScales ==
  rszOut # <<>> =>
    LET b == rsz.box
        out == rszOut[1]
        rw == Quot(rsz.width.size, b.width)
        rh == Quot(rsz.height.size, b.height + b.depth)
    IN /\ out.base = b
       /\ (~rsz.width.valid /\ ~rsz.height.valid) => ~out.scaled
       /\ (rsz.width.valid \/ rsz.height.valid) => out.scaled
       /\ (rsz.width.valid /\ ~rsz.height.valid)
            => FEq(out.sx, rw) /\ FEq(out.sy, rw)
       /\ (~rsz.width.valid /\ rsz.height.valid)
            => FEq(out.sx, rh) /\ FEq(out.sy, rh)
       /\ (rsz.width.valid /\ rsz.height.valid /\ ~rsz.keepAspectRatio)
            => FEq(out.sx, rw) /\ FEq(out.sy, rh)
       /\ (rsz.width.valid /\ rsz.height.valid /\ rsz.keepAspectRatio)
            => /\ IsMinOf(out.sx, rw, rh)
               /\ FEq(out.sy, out.sx)

\* both dimensions set and locked, the height ratio being the smaller one
C7_Witness ==
  /\ rszOut # <<>>
  /\ rsz.width.valid /\ rsz.height.valid /\ rsz.keepAspectRatio
  /\ rsz.box.width > 0 /\ rsz.box.depth > 0
  /\ FLess(Quot(rsz.height.size, vlen(rsz.box)), Quot(rsz.width.size, rsz.box.width))
  /\ rszOut[1].scaled

(***************************************************************************)
(* ArrayFormula.  A cell is "null" (no atom), "atom" (an atom of any type  *)
(* but inter-text) or "interText" (an atom whose _type is interText); _root *)
(* is the cell being built.                                                *)
(***************************************************************************)
MaxCells == 5

MaxArrayRows == 3

MaxSpan == 3

\* ArrayFormula::ArrayFormula(): one empty row, _row = _col = 0, no root
ArrayFormula == [array |-> << <<>> >>, row |-> 0, col |-> 0, root |-> "null"]

\* n null cells
Nulls(n) == [i \in 1..n |-> "null"]

\* ArrayFormula::addCol(); row r of the table is array[r + 1]
ArrayFormula_addCol(a) ==
  [a EXCEPT !.array[a.row + 1] = Append(@, a.root),
            !.root = "null",
            !.col = @ + 1]

\* ArrayFormula::addCol(n): the root and n - 2 null cells
ArrayFormula_addColN(a, n) ==
  [a EXCEPT !.array[a.row + 1] = Append(@, a.root) \o Nulls(Max(n - 2, 0)),
            !.root = "null",
            !.col = @ + n]

\* ArrayFormula::addRow()
ArrayFormula_addRow(a) ==
  LET b == ArrayFormula_addCol(a)
  IN [b EXCEPT !.array = Append(@, <<>>), !.row = @ + 1, !.col = 0]

\* the largest of the lengths of rows 1..n of A, as the loop of checkDimensions
\* finds it starting from row 1's
RECURSIVE WidestFrom(_, _, _, _)
WidestFrom(A, i, n, col) ==
  IF i > n THEN col
  ELSE WidestFrom(A, i + 1, n, IF Len(A[i]) > col THEN Len(A[i]) ELSE col)

\* row r after the filling loop of checkDimensions
ArrayFormula_padRow(r, col) ==
  IF Len(r) # col /\ r[1] # "null" /\ r[1] # "interText"
  THEN r \o Nulls(col - Len(r))
  ELSE r

\* the state checkDimensions works on after its first line: the row being
\* built is ended when it has a cell or a root
ArrayFormula_endLastRow(a) ==
  IF Last(a.array) # <<>> \/ a.root # "null" THEN ArrayFormula_addRow(a) ELSE a

\* ArrayFormula::checkDimensions()
ArrayFormula_checkDimensions(a) ==
  LET b == ArrayFormula_endLastRow(a)
      row == Len(b.array) - 1
      col == WidestFrom(b.array, 2, row, Len(b.array[1]))
  IN [b EXCEPT !.row = row,
               !.col = col,
               !.array = [i \in DOMAIN b.array |->
                            IF i <= row THEN ArrayFormula_padRow(b.array[i], col)
                            ELSE b.array[i]]]

\* ArrayFormula::rows()
rows(a) == a.row

\* ArrayFormula::cols()
cols(a) == a.col

\* the number of cells of the table
CellCount(A) ==
  LET RECURSIVE Sum(_)
      Sum(i) == IF i = 0 THEN 0 ELSE Len(A[i]) + Sum(i - 1)
  IN Sum(Len(A))

InitArray ==
  /\ arr = [f |-> ArrayFormula, op |-> "new", before |-> << <<>> >>]
  /\ FormulaInit /\ LayoutIdle /\ DivIdle /\ ResizeIdle /\ AtomIdle /\ LibIdle

ArrayUnchanged == UNCHANGED <<libVars, formulaVars, layoutVars, divVars, resizeVars, atomVars>>

\* the parser adds an atom to the formula, which makes it the cell being built;
\* an inter-text atom opens its row
ArrayAddStep ==
  /\ arr.f.root = "null"
  /\ \E t \in {"atom", "interText"} :
       /\ t = "interText" => arr.f.col = 0
       /\ arr' = [f |-> [arr.f EXCEPT !.root = t], op |-> "add",
                  before |-> arr.f.array]
  /\ ArrayUnchanged

AddColStep ==
  /\ CellCount(arr.f.array) < MaxCells
  /\ arr' = [f |-> ArrayFormula_addCol(arr.f), op |-> "addCol",
             before |-> arr.f.array]
  /\ ArrayUnchanged

AddColNStep ==
  /\ \E n \in 1..MaxSpan :
       /\ CellCount(arr.f.array) + Max(n - 2, 0) < MaxCells
       /\ arr' = [f |-> ArrayFormula_addColN(arr.f, n), op |-> "addColN",
                  before |-> arr.f.array]
  /\ ArrayUnchanged

AddRowStep ==
  /\ CellCount(arr.f.array) < MaxCells
  /\ Len(arr.f.array) <= MaxArrayRows
  /\ arr' = [f |-> ArrayFormula_addRow(arr.f), op |-> "addRow",
             before |-> arr.f.array]
  /\ ArrayUnchanged

\* checkDimensions(); before is the table its filling loop starts from
CheckDimensionsStep ==
  /\ arr.op # "checkDimensions"
  /\ \/ CellCount(arr.f.array) < MaxCells
     \/ (Last(arr.f.array) = <<>> /\ arr.f.root = "null")
  /\ arr' = [f |-> ArrayFormula_checkDimensions(arr.f),
             op |-> "checkDimensions",
             before |-> ArrayFormula_endLastRow(arr.f).array]
  /\ ArrayUnchanged

NextArray ==
  \/ ArrayAddStep
  \/ AddColStep
  \/ AddColNStep
  \/ AddRowStep
  \/ CheckDimensionsStep

SpecArray == InitArray /\ [][NextArray]_vars

\* the largest length among the rows 1..n of A
Widest(A, n) ==
  CHOOSE w \in {Len(A[i]) : i \in 1..n} : \A i \in 1..n : Len(A[i]) <= w

\* C8: after checkDimensions every completed row whose first cell is not an
\* inter-text marker has as many cells as the widest completed row, the added
\* cells being nulls at its end, and every row whose first cell is an
\* inter-text marker keeps its cells; rows whose first cell is null included.
C8_CheckDimensionsPads ==
  arr.op = "checkDimensions" =>
    LET A == arr.f.array
        B == arr.before
        n == Len(A) - 1
    IN /\ Len(B) = Len(A)
       /\ n >= 1 =>
            \A i \in 1..n :
              IF B[i][1] = "interText" THEN A[i] = B[i]
              ELSE /\ Len(A[i]) = Widest(B, n)
                   /\ SubSeq(A[i], 1, Len(B[i])) = B[i]
                   /\ \A j \in (Len(B[i]) + 1)..Len(A[i]) : A[i][j] = "null"

(***************************************************************************)
(* AccentedAtom::createBox.  The atom is given with what its parts yield:  *)
(* accentee is the box of the accentee laid out in cramped style (the      *)
(* empty strut when there is no accentee), baseIsChar whether _base is a   *)
(* CharSymbol and baseTop that glyph's top accent attachment, chr the      *)
(* horizontal variants hLarger(0), hLarger(1), ... of the accent's glyph.  *)
(* Horizontal positions that the code halves are fractions.                *)
(***************************************************************************)
MaxAccenteeWidth == 5

MaxVariants == 3

MaxVariantWidth == 5

\* Otf::undefinedMathValue
undefinedMathValue == -32768

\* env.xHeight()
XHeight == 2

\* Units::fsize(UnitType::mu, 1, env)
MuSize == 1

\* a - b on floats
FSub(a, b) == Quot(a.n * b.d - b.n * a.d, a.d * b.d)

\* VBox(): an empty vertical box
VBox_new == Box(0, 0, 0, 0, <<>>, FALSE, NULL)

\* VBox::add(b): the first child gives the height and the depth, every later
\* child goes below and adds its extent to the depth
VBox_add(vb, b) ==
  [vb EXCEPT !.width = Max(@, b.width),
             !.height = IF vb.children = <<>> THEN b.height ELSE @,
             !.depth = IF vb.children = <<>> THEN b.depth
                       ELSE @ + b.height + b.depth,
             !.children = Append(@, b)]

\* the top attachment point AccentedAtom::createBox positions the accent at
AccentedAtom_topAccent(a) ==
  LET topAccent == IF a.baseIsChar THEN a.baseTop ELSE 0
  IN IF topAccent = undefinedMathValue THEN Quot(a.accentee.width, 2)
     ELSE Quot(topAccent, 1)

\* the loop of getChar: the index i it stops at; hLarger(i) is chr[i + 1]
RECURSIVE AccentedAtom_scan(_, _, _)
AccentedAtom_scan(chr, i, width) ==
  IF i < Len(chr) /\ ~(chr[i + 1].width > width)
  THEN AccentedAtom_scan(chr, i + 1, width)
  ELSE i

\* getChar taking the variant the scan stopped at instead of the one before
AccentedAtom_getChar_stopped(a) ==
  Min(AccentedAtom_scan(a.chr, 1, a.accentee.width), Len(a.chr) - 1)

\* the getChar lambda of AccentedAtom::createBox: the number of the variant
\* it returns, hLarger(i - 1)
AccentedAtom_getChar(a) == AccentedAtom_scan(a.chr, 1, a.accentee.width) - 1

\* the accenter box, with its shift; direct accents are the accent symbol
\* laid out in subscript style or in the current style
AccentedAtom_accenter(a, topAccent) ==
  IF a.directAccent
  THEN [variant |-> 0,
        style |-> IF a.changeSize THEN "sub" ELSE "current",
        box |-> Box(a.chr[1].width, a.chr[1].height, a.chr[1].depth, 0,
                    <<>>, FALSE, NULL),
        shift |-> FSub(topAccent, Quot(a.chr[1].width, 2))]
  ELSE LET i == AccentedAtom_getChar(a)
           c == a.chr[i + 1]
       IN [variant |-> i,
           style |-> "current",
           box |-> Box(c.width, c.height, c.depth, 0, <<>>, FALSE, NULL),
           shift |-> FSub(topAccent,
                          IF c.top = undefinedMathValue THEN Quot(c.width, 2)
                          ELSE Quot(c.top, 1))]

\* the kerning between the accenter and the accentee
AccentedAtom_delta(a) ==
  IF a.directAccent THEN MuSize ELSE -Min(a.accentee.height, XHeight)

\* the vertical box: accenter, kerning, accentee, with the accentee's depth
AccentedAtom_vbox(a, accenter) ==
  LET vbox == VBox_add(VBox_add(VBox_add(VBox_new, accenter.box),
                                StrutBox(0, AccentedAtom_delta(a), 0, 0)),
                       a.accentee)
  IN [vbox EXCEPT !.depth = a.accentee.depth,
                  !.height = vlen(vbox) - a.accentee.depth]

\* AccentedAtom::createBox: the box, and the accenter and the attachment
\* point it was built from
AccentedAtom_createBox(a) ==
  [topAccent |-> AccentedAtom_topAccent(a),
   accenter |-> AccentedAtom_accenter(a, AccentedAtom_topAccent(a)),
   box |-> AccentedAtom_vbox(a, AccentedAtom_accenter(a, AccentedAtom_topAccent(a)))]

(***************************************************************************)
(* SpecAccent: an AccentedAtom over any accentee and any family of accent  *)
(* variants is laid out.                                                   *)
(***************************************************************************)
\* a glyph of the accent, with its top accent attachment
AccentGlyph(w, top) == [width |-> w, height |-> 1, depth |-> 0, top |-> top]

\* the widths of the horizontal variants of a glyph, each wider than the one
\* before
VariantWidths ==
  {ws \in UNION {[1..n -> 1..MaxVariantWidth] : n \in 1..MaxVariants} :
     \A i \in 1..(Len(ws) - 1) : ws[i] < ws[i + 1]}

\* the boxes an accentee yields
AccenteeBoxes ==
  {Box(w, h, d, 0, <<>>, FALSE, NULL) :
     w \in 0..MaxAccenteeWidth, h \in {1, 3}, d \in {0, 1}}

\* the atoms: without an accentee there is no base either
AccentedAtoms ==
  {[accentee |-> b, baseIsChar |-> c[1], baseTop |-> c[2],
    chr |-> [i \in DOMAIN ws |-> AccentGlyph(ws[i], top)],
    directAccent |-> m[1], changeSize |-> m[2]] :
     b \in AccenteeBoxes,
     c \in {<<FALSE, 0>>, <<TRUE, undefinedMathValue>>, <<TRUE, 0>>, <<TRUE, 2>>},
     ws \in VariantWidths, top \in {undefinedMathValue, 1},
     m \in {<<TRUE, TRUE>>, <<TRUE, FALSE>>, <<FALSE, TRUE>>}}
  \cup
  {[accentee |-> StrutBox_empty, baseIsChar |-> FALSE, baseTop |-> 0,
    chr |-> [i \in DOMAIN ws |-> AccentGlyph(ws[i], top)],
    directAccent |-> m[1], changeSize |-> m[2]] :
     ws \in VariantWidths, top \in {undefinedMathValue, 1},
     m \in {<<TRUE, TRUE>>, <<FALSE, TRUE>>}}

InitAccent ==
  /\ subject \in AccentedAtoms
  /\ laid = <<>>
  /\ FormulaInit /\ LayoutIdle /\ DivIdle /\ ResizeIdle /\ ArrayIdle /\ LibIdle

\* createBox(env) on the AccentedAtom
AccentCreateBoxStep ==
  /\ laid = <<>>
  /\ laid' = <<AccentedAtom_createBox(subject)>>
  /\ UNCHANGED <<libVars, subject, formulaVars, layoutVars, divVars, resizeVars>>
  /\ UNCHANGED arr

NextAccent == AccentCreateBoxStep

SpecAccent == InitAccent /\ [][NextAccent]_vars

\* the variants 1, 2, ... of the accent that are no wider than the accentee
FittingVariants ==
  {j \in 1..(Len(subject.chr) - 1) :
     subject.chr[j + 1].width <= subject.accentee.width}

\* the variants of the accent that are at least as wide as the accentee
CoveringVariants ==
  {j \in 0..(Len(subject.chr) - 1) :
     subject.chr[j + 1].width >= subject.accentee.width}

\* C11 as claimed: in variant-glyph mode the accent is the narrowest variant
\* whose width is at least the accentee box's width, and the widest variant
\* when none is that wide.
C11_NarrowestCovering ==
  (laid # <<>> /\ ~subject.directAccent) =>
    laid[1].accenter.variant =
      IF CoveringVariants = {} THEN Len(subject.chr) - 1
      ELSE CHOOSE j \in CoveringVariants : \A k \in CoveringVariants : j <= k

\* C11 amended: in variant-glyph mode, with the variants ordered by increasing
\* width, the accent is the widest of the variants 1, 2, ... whose width is at
\* most the accentee box's width, and variant 0 when none of them is that
\* narrow; when no variant is wider than the accentee this is the widest one.
C11_WidestFitting ==
  (laid # <<>> /\ ~subject.directAccent) =>
    /\ laid[1].accenter.variant =
         IF FittingVariants = {} THEN 0
         ELSE CHOOSE j \in FittingVariants : \A k \in FittingVariants : k <= j
    /\ (\A j \in DOMAIN subject.chr :
          subject.chr[j].width <= subject.accentee.width)
         => laid[1].accenter.variant = Len(subject.chr) - 1
    /\ laid[1].accenter.box.width =
         subject.chr[laid[1].accenter.variant + 1].width

\* three variants, the accentee strictly between the second and the third:
\* the second is taken
C11_Witness ==
  /\ laid # <<>>
  /\ ~subject.directAccent
  /\ Len(subject.chr) = 3
  /\ subject.chr[2].width < subject.accentee.width
  /\ subject.accentee.width < subject.chr[3].width
  /\ laid[1].accenter.variant = 1

\* C18: the attachment point the accent is positioned at is the base glyph's
\* top accent attachment when that is defined, and half the accentee box's
\* width whenever it is not: the metric is the undefined value, or the base
\* is not a single glyph.
C18_TopAccent ==
  laid # <<>> =>
    FEq(laid[1].topAccent,
        IF subject.baseIsChar /\ subject.baseTop # undefinedMathValue
        THEN Quot(subject.baseTop, 1)
        ELSE Quot(subject.accentee.width, 2))

(***************************************************************************)
(* VRowAtom::createBox.  The atom is given with the box each of its        *)
(* elements yields; heights and depths that the code halves are fractions. *)
(***************************************************************************)
MaxChildren == 3

\* F_MIN, below every width
F_MIN == -1000000

\* env.lineSpace()
LineSpace == 1

\* a + b on floats
FAdd(a, b) == Quot(a.n * b.d + b.n * a.d, a.d * b.d)

\* HBox(box, width, alignment): the box padded to the width
HBox_aligned(b, w, alignment) ==
  [width |-> w, height |-> b.height, depth |-> b.depth, shift |-> 0,
   children |-> <<b>>, space |-> FALSE, ph |-> NULL, align |-> alignment]

\* the loop laying out the elements, keeping the width of the last box as the
\* largest
RECURSIVE VRowAtom_boxes_lastWidth(_, _, _)
VRowAtom_boxes_lastWidth(elements, i, r) ==
  IF i > Len(elements) THEN r
  ELSE VRowAtom_boxes_lastWidth(elements, i + 1,
         [boxes |-> Append(r.boxes, elements[i]),
          calls |-> Append(r.calls, i),
          maxWidth |-> elements[i].width])

\* the loop laying out the elements i.. : the boxes, the elements laid out in
\* call order, and the largest width
RECURSIVE VRowAtom_boxes(_, _, _)
VRowAtom_boxes(elements, i, r) ==
  IF i > Len(elements) THEN r
  ELSE VRowAtom_boxes(elements, i + 1,
         [boxes |-> Append(r.boxes, elements[i]),
          calls |-> Append(r.calls, i),
          maxWidth |-> IF r.maxWidth < elements[i].width
                       THEN elements[i].width ELSE r.maxWidth])

\* the loop adding the boxes i.. to the vertical box, each padded to maxWidth
\* when a horizontal alignment is set, with the interline between two boxes
RECURSIVE VRowAtom_stack(_, _, _, _, _)
VRowAtom_stack(a, boxes, i, vb, maxWidth) ==
  IF i > Len(boxes) THEN vb
  ELSE VRowAtom_stack(a, boxes, i + 1,
         IF a.addInterline /\ i < Len(boxes)
         THEN VBox_add(VBox_add(vb, IF a.halign # "none"
                                    THEN HBox_aligned(boxes[i], maxWidth, a.halign)
                                    ELSE boxes[i]),
                       StrutBox(0, LineSpace, 0, 0))
         ELSE VBox_add(vb, IF a.halign # "none"
                           THEN HBox_aligned(boxes[i], maxWidth, a.halign)
                           ELSE boxes[i]),
         maxWidth)

\* the vertical alignment with the centre mode splitting the extent in two
\* halves, the axis left out
VRowAtom_valign_noAxis(vb, valign, axis) ==
  IF valign = "top"
  THEN LET t == IF vb.children = <<>> THEN 0 ELSE Head(vb.children).height
       IN [height |-> Quot(t, 1), depth |-> Quot(vb.depth + t - t, 1)]
  ELSE IF valign = "center"
  THEN [height |-> Quot(vlen(vb), 2), depth |-> Quot(vlen(vb), 2)]
  ELSE LET t == IF vb.children = <<>> THEN 0 ELSE Last(vb.children).depth
       IN [height |-> Quot(vb.depth + vb.height - t, 1), depth |-> Quot(t, 1)]

\* the vertical alignment with the bottom mode not taking the pinned depth off
\* the height
VRowAtom_valign_grown(vb, valign, axis) ==
  IF valign = "top"
  THEN LET t == IF vb.children = <<>> THEN 0 ELSE Head(vb.children).height
       IN [height |-> Quot(t, 1), depth |-> Quot(vb.depth + t - t, 1)]
  ELSE IF valign = "center"
  THEN [height |-> FAdd(Quot(vlen(vb), 2), Quot(axis, 1)),
        depth |-> FSub(Quot(vlen(vb), 2), Quot(axis, 1))]
  ELSE LET t == IF vb.children = <<>> THEN 0 ELSE Last(vb.children).depth
       IN [height |-> Quot(vb.depth + vb.height, 1), depth |-> Quot(t, 1)]

\* the end of VRowAtom::createBox: the height and the depth by _valign; in the
\* top branch the depth is computed from the height already overwritten
VRowAtom_valign(vb, valign, axis) ==
  IF valign = "top"
  THEN LET t == IF vb.children = <<>> THEN 0 ELSE Head(vb.children).height
       IN [height |-> Quot(t, 1), depth |-> Quot(vb.depth + t - t, 1)]
  ELSE IF valign = "center"
  THEN [height |-> FAdd(Quot(vlen(vb), 2), Quot(axis, 1)),
        depth |-> FSub(Quot(vlen(vb), 2), Quot(axis, 1))]
  ELSE LET t == IF vb.children = <<>> THEN 0 ELSE Last(vb.children).depth
       IN [height |-> Quot(vb.depth + vb.height - t, 1), depth |-> Quot(t, 1)]

\* VRowAtom::createBox once the elements are laid out: stacked is the vertical
\* box before the alignment sets its height and depth
VRowAtom_finish(a, r, vb) ==
  [calls |-> r.calls, stacked |-> vb, shift |-> -a.raise,
   height |-> VRowAtom_valign(vb, a.valign, AxisHeight).height,
   depth |-> VRowAtom_valign(vb, a.valign, AxisHeight).depth]

\* VRowAtom::createBox once the elements are laid out
VRowAtom_laid(a, r) ==
  VRowAtom_finish(a, r, VRowAtom_stack(a, r.boxes, 1, VBox_new, r.maxWidth))

\* VRowAtom::createBox
VRowAtom_createBox(a) ==
  VRowAtom_laid(a, VRowAtom_boxes(a.elements, 1,
                     [boxes |-> <<>>, calls |-> <<>>, maxWidth |-> F_MIN]))

(***************************************************************************)
(* SpecVRow: a VRowAtom over any elements, in any alignment, is laid out.  *)
(***************************************************************************)
\* the boxes an element yields
ChildBoxes ==
  {Box(w, hd[1], hd[2], 0, <<>>, FALSE, NULL) :
     w \in {0, 4, 6, 10}, hd \in {<<1, 0>>, <<2, 1>>}}

VRowAtoms ==
  [elements : UNION {[1..n -> ChildBoxes] : n \in 0..MaxChildren},
   halign : {"none", "left", "center", "right"},
   valign : {"top", "center", "bottom"},
   addInterline : BOOLEAN,
   raise : {0, 1}]

InitVRow ==
  /\ subject \in VRowAtoms
  /\ laid = <<>>
  /\ FormulaInit /\ LayoutIdle /\ DivIdle /\ ResizeIdle /\ ArrayIdle /\ LibIdle

\* createBox(env) on the VRowAtom
VRowCreateBoxStep ==
  /\ laid = <<>>
  /\ laid' = <<VRowAtom_createBox(subject)>>
  /\ UNCHANGED <<libVars, subject, formulaVars, layoutVars, divVars, resizeVars>>
  /\ UNCHANGED arr

NextVRow == VRowCreateBoxStep

SpecVRow == InitVRow /\ [][NextVRow]_vars

\* the children of the stack that are not interline struts
Rows(vb) == SelectSeq(vb.children, LAMBDA b : ~b.space)

\* C12: the final height and depth follow the vertical alignment: top gives
\* the first child's height as height, bottom the last child's depth as
\* depth, centre gives height = extent/2 + axis and depth = extent/2 - axis
\* with extent the stack's height + depth; an empty stack pins 0.
C12_VRowValign ==
  laid # <<>> =>
    LET vb == laid[1].stacked
        rws == Rows(vb)
    IN /\ Len(rws) = Len(subject.elements)
       /\ subject.valign = "top" =>
            FEq(laid[1].height,
                Quot(IF rws = <<>> THEN 0 ELSE subject.elements[1].height, 1))
       /\ subject.valign = "bottom" =>
            FEq(laid[1].depth,
                Quot(IF rws = <<>> THEN 0 ELSE Last(subject.elements).depth, 1))
       /\ subject.valign = "center" =>
            /\ FEq(laid[1].height, Quot(vlen(vb) + 2 * AxisHeight, 2))
            /\ FEq(laid[1].depth, Quot(vlen(vb) - 2 * AxisHeight, 2))

\* a stack of two rws of different sizes, pinned at the top
C12_Witness ==
  /\ laid # <<>>
  /\ subject.valign = "top"
  /\ Len(subject.elements) = 2
  /\ subject.elements[1].height = 2
  /\ subject.elements[2].height = 1
  /\ FEq(laid[1].height, Quot(2, 1))

\* C13: the alignment only moves the baseline: in every vertical alignment
\* the returned height + depth is the height + depth of the stacked box.
C13_VRowExtent ==
  laid # <<>> =>
    FEq(FAdd(laid[1].height, laid[1].depth), Quot(vlen(laid[1].stacked), 1))

\* a stack of three rws with interlines, pinned at the bottom
C13_Witness ==
  /\ laid # <<>>
  /\ subject.valign = "bottom"
  /\ subject.addInterline
  /\ Len(subject.elements) = 3
  /\ Last(subject.elements).depth = 1
  /\ FEq(laid[1].depth, Quot(1, 1))
  /\ vlen(laid[1].stacked) > 5

\* C14: with a horizontal alignment every child is laid out exactly once, and
\* the rws of the stack are, in child order, the child boxes each wrapped in
\* a box of the largest child width with the requested alignment.
C14_VRowHalign ==
  (laid # <<>> /\ subject.halign # "none") =>
    LET rws == Rows(laid[1].stacked)
        n == Len(subject.elements)
    IN /\ laid[1].calls = [i \in 1..n |-> i]
       /\ Len(rws) = n
       /\ \A i \in 1..n :
            /\ rws[i].children = <<subject.elements[i]>>
            /\ rws[i].align = subject.halign
            /\ \A j \in 1..n : rws[i].width >= subject.elements[j].width
            /\ \E j \in 1..n : rws[i].width = subject.elements[j].width

\* children of widths 4, 10 and 6, centred: every wrapper is 10 wide
C14_Witness ==
  /\ laid # <<>>
  /\ subject.halign = "center"
  /\ [i \in DOMAIN subject.elements |-> subject.elements[i].width] = <<4, 10, 6>>
  /\ [i \in DOMAIN Rows(laid[1].stacked) |-> Rows(laid[1].stacked)[i].width]
       = <<10, 10, 10>>

(***************************************************************************)
(* FencedAtom::createBox, looked at through the boxes it returns.          *)
(***************************************************************************)
\* the children of a box that are not glue or struts
Pieces(b) == SelectSeq(b.children, LAMBDA c : ~c.space)

\* whether box b is centred on the axis, lowered by the shift of the box
\* around; shifts are in halves of the unit
Centred(b, axis, around) ==
  b.shift = -(vlen(b) - 2 * b.height) - 2 * axis - around

\* whether box b is the delimiter named sym built for the extent h
DelimFor(b, sym, env, h) ==
  /\ b.height = createVDelim(sym, env, h).height
  /\ b.depth = createVDelim(sym, env, h).depth
  /\ b.ph = NULL

\* C15: the box the last createBox on a FencedAtom returned: with h the base
\* box's height + depth, the left and right delimiters are built for h and
\* centred on the axis by their own extent; every middle has the height h,
\* and the box in its place inside the base box is its delimiter built for h,
\* centred the same way less the base's shift; a null base gives the empty
\* strut and a delimiter named "" or "." is left out.
C15_FencedCentred ==
  (layoutLog # <<>> /\ heap[Last(layoutLog).atom].kind = "Fenced") =>
    LET e == Last(layoutLog)
        a == heap[e.atom]
        axis == Axis(e.env)
        ps == Pieces(e.whole)
        nl == IF IsDelim(a.l) THEN 1 ELSE 0
        nr == IF IsDelim(a.r) THEN 1 ELSE 0
    IN IF a.base = NULL THEN e.whole = StrutBox_empty
       ELSE /\ Len(ps) = nl + 1 + nr
            /\ LET base == ps[nl + 1]
                   h == vlen(base)
               IN /\ Centred(base, axis, 0)
                  /\ nl = 1 => /\ DelimFor(ps[1], a.l, e.env, h)
                               /\ Centred(ps[1], axis, 0)
                  /\ nr = 1 => /\ DelimFor(ps[Len(ps)], a.r, e.env, h)
                               /\ Centred(ps[Len(ps)], axis, 0)
                  /\ \A i \in DOMAIN a.m :
                       /\ heap[a.m[i]].height = h
                       /\ \A k \in DOMAIN heap[a.base].elements :
                            heap[a.base].elements[k] = a.m[i] =>
                              /\ DelimFor(base.children[k], heap[a.m[i]].sym,
                                          e.env, h)
                              /\ Centred(base.children[k], axis, base.shift)

(***************************************************************************)
(* MathAtom::createBox and the environment's style and font style.         *)
(* A TexStyle is a number: display 0, text 2, script 4, scriptScript 6,    *)
(* and the cramped variant of each is one more; a greater style uses a     *)
(* smaller font size.  A font style is a set of flags.                     *)
(***************************************************************************)
\* the depth of MathAtoms inside MathAtoms
MaxMathDepth == 2

TexStyle_display == 0

TexStyle_scriptScriptCramped == 7

TexStyles == TexStyle_display .. TexStyle_scriptScriptCramped

FontStyles == SUBSET {"rm", "bf", "it"}

\* env.removeFontStyle(style)
Env_removeFontStyle(env, style) == [env EXCEPT !.fontStyle = @ \ style]

\* env.addFontStyle(style)
Env_addFontStyle(env, style) == [env EXCEPT !.fontStyle = @ \cup style]

\* env.setStyle(style)
Env_setStyle(env, style) == [env EXCEPT !.style = style]

\* MathAtom(base, style); the base is a character or another MathAtom
RECURSIVE MathAtoms(_)
MathAtoms(depth) ==
  IF depth = 0 THEN {[kind |-> "Char"]}
  ELSE [kind : {"Math"}, base : MathAtoms(depth - 1), style : TexStyles]
         \cup MathAtoms(depth - 1)

\* MathAtom::createBox up to the layout of the base, with the style the claim
\* reads: the declared style is taken when it is the smaller number
MathAtom_enter_larger(a, env) ==
  LET env1 == Env_removeFontStyle(env, {"rm"})
  IN IF a.style < env1.style THEN Env_setStyle(env1, a.style) ELSE env1

\* MathAtom::createBox up to the layout of the base: the environment the base
\* is laid out in
MathAtom_enter(a, env) ==
  LET env1 == Env_removeFontStyle(env, {"rm"})
  IN IF a.style > env1.style THEN Env_setStyle(env1, a.style) ELSE env1

\* MathAtom::createBox after the layout of the base: env is the environment
\* as the base left it, fontStyle and style the values saved at entry
MathAtom_leave(env, fontStyle, style) ==
  Env_setStyle(Env_addFontStyle(env, fontStyle), style)

RECURSIVE Atom_createBoxIn(_, _)

\* MathAtom::createBox with the environment handed to the base: the
\* environment it leaves, the one the base was laid out in, and the box
MathAtom_createBoxIn(a, env, baseEnv) ==
  [env |-> MathAtom_leave(Atom_createBoxIn(a.base, baseEnv).env,
                          env.fontStyle, env.style),
   baseEnv |-> baseEnv,
   box |-> Atom_createBoxIn(a.base, baseEnv).box]

\* MathAtom::createBox
MathAtom_createBox(a, env) == MathAtom_createBoxIn(a, env, MathAtom_enter(a, env))

\* createBox of a MathAtom or of a character, which leaves the environment
\* alone and gives a glyph in the environment's style
Atom_createBoxIn(a, env) ==
  IF a.kind = "Math" THEN MathAtom_createBox(a, env)
  ELSE [env |-> env, baseEnv |-> env, box |-> [glyph |-> env]]

InitMath ==
  /\ FormulaInit /\ LayoutIdle /\ DivIdle /\ ResizeIdle /\ ArrayIdle /\ LibIdle
  /\ subject \in [atom : MathAtoms(MaxMathDepth) \ {[kind |-> "Char"]},
                  env : [style : TexStyles, fontStyle : FontStyles]]
  /\ laid = <<>>

MathCreateBoxStep ==
  /\ laid = <<>>
  /\ laid' = <<MathAtom_createBox(subject.atom, subject.env)>>
  /\ UNCHANGED <<libVars, subject, formulaVars, layoutVars, divVars, resizeVars,
                 arrayVars>>

NextMath == MathCreateBoxStep

SpecMath == InitMath /\ [][NextMath]_vars

\* the font size of a style: display 3, text 2, script 1, scriptScript 0
StyleSize(style) == 3 - style \div 2

\* C16 as stated: the base is laid out in the declared style when that style
\* is larger than the caller's and in the caller's style otherwise, and the
\* style and font style at return are those at entry.
C16_LargerStyleAdopted ==
  laid # <<>> =>
    /\ laid[1].baseEnv.style =
         IF StyleSize(subject.atom.style) > StyleSize(subject.env.style)
         THEN subject.atom.style ELSE subject.env.style
    /\ laid[1].env.style = subject.env.style
    /\ laid[1].env.fontStyle = subject.env.fontStyle

\* C16, amended: the base is laid out in the declared style when that style
\* is greater than the caller's in the order of TexStyle, that is smaller or
\* more cramped, and in the caller's style otherwise, and the style and font
\* style at return are those at entry.
C16_GreaterStyleAdopted ==
  laid # <<>> =>
    /\ laid[1].baseEnv.style =
         IF subject.atom.style > subject.env.style
         THEN subject.atom.style ELSE subject.env.style
    /\ laid[1].env.style = subject.env.style
    /\ laid[1].env.fontStyle = subject.env.fontStyle

\* a MathAtom declared script over a MathAtom, laid out in text style with the
\* font style rm: the base was laid out in script style
C16_Witness ==
  /\ laid # <<>>
  /\ subject.atom.base.kind = "Math"
  /\ subject.atom.style = 4
  /\ subject.env.style = 2
  /\ "rm" \in subject.env.fontStyle
  /\ laid[1].baseEnv.style = 4
  /\ laid[1].env = subject.env

(***************************************************************************)
(* ArrayFormula::addCellSpecifier.  _cellSpecifiers is a map from strings  *)
(* to lists of specifiers; the specifiers are numbered in the order in     *)
(* which they are added, and placed remembers the cell each was added at.  *)
(***************************************************************************)
MaxCellRows == 11

MaxCellSpan == 10

MaxColOps == 1

MaxSpecifiers == 2

\* the key addCellSpecifier looks up for the cell (row, col)
ArrayFormula_cellKey(row, col) == tostring(row) \o tostring(col)

\* ArrayFormula::addCellSpecifier(spe) on the map m of an ArrayFormula a
ArrayFormula_addCellSpecifier(a, m, spe) ==
  LET str == ArrayFormula_cellKey(a.row, a.col)
  IN [k \in DOMAIN m \cup {str} |->
        IF k = str
        THEN (IF str \in DOMAIN m THEN m[str] ELSE <<>>) \o <<spe>>
        ELSE m[k]]

InitCell ==
  /\ arr = [f |-> ArrayFormula, cellSpecifiers |-> <<>>, placed |-> <<>>,
            colOps |-> 0]
  /\ FormulaInit /\ LayoutIdle /\ DivIdle /\ ResizeIdle /\ AtomIdle /\ LibIdle

CellAddColStep ==
  /\ arr.colOps < MaxColOps
  /\ arr' = [arr EXCEPT !.f = ArrayFormula_addCol(arr.f), !.colOps = @ + 1]
  /\ ArrayUnchanged

CellAddColNStep ==
  /\ arr.colOps < MaxColOps
  /\ \E n \in 1..MaxCellSpan :
       arr' = [arr EXCEPT !.f = ArrayFormula_addColN(arr.f, n),
                          !.colOps = @ + 1]
  /\ ArrayUnchanged

CellAddRowStep ==
  /\ arr.f.row < MaxCellRows
  /\ arr' = [arr EXCEPT !.f = ArrayFormula_addRow(arr.f)]
  /\ ArrayUnchanged

AddCellSpecifierStep ==
  /\ Len(arr.placed) < MaxSpecifiers
  /\ arr' = [arr EXCEPT
               !.cellSpecifiers =
                 ArrayFormula_addCellSpecifier(arr.f, @, Len(arr.placed) + 1),
               !.placed = Append(@, <<arr.f.row, arr.f.col>>)]
  /\ ArrayUnchanged

NextCell ==
  \/ CellAddColStep
  \/ CellAddColNStep
  \/ CellAddRowStep
  \/ AddCellSpecifierStep

SpecCell == InitCell /\ [][NextCell]_vars

\* C17: specifiers added at two different cells are stored under different
\* keys and are never in the same list.
C17_CellKeysDistinct ==
  \A i, j \in DOMAIN arr.placed :
    arr.placed[i] # arr.placed[j] =>
      \A k \in DOMAIN arr.cellSpecifiers :
        ~(/\ \E x \in DOMAIN arr.cellSpecifiers[k] : arr.cellSpecifiers[k][x] = i
          /\ \E y \in DOMAIN arr.cellSpecifiers[k] : arr.cellSpecifiers[k][y] = j)

(***************************************************************************)
(* LongDivAtom::createBox: the rows appended to the VRowAtom vrow, each     *)
(* [num, ruled] with num the numeral laid out and ruled whether the row is  *)
(* wrapped in an OverUnderBar, and the row of the quotient above the rule.  *)
(***************************************************************************)
\* whether row i of the results is given a rule, with the parity turned round
LongDivAtom_ruled_odd(i) == i # 1 /\ i % 2 = 1

\* whether the loop of createBox wraps the row of results[i] (0-based i >= 1)
\* in an OverUnderBar
LongDivAtom_ruled(i) == i # 1 /\ i % 2 = 0

\* the loop of LongDivAtom::createBox from the 0-based index i on
RECURSIVE LongDivAtom_rows(_, _, _)
LongDivAtom_rows(res, i, vrow) ==
  IF i >= Len(res) THEN vrow
  ELSE LongDivAtom_rows(res, i + 1,
         Append(vrow, [num |-> res[i + 1], ruled |-> LongDivAtom_ruled(i)]))

\* LongDivAtom::createBox on the results of calculate
LongDivAtom_createBox(res) ==
  [vrow |-> LongDivAtom_rows(res, 1, <<>>), quotient |-> res[1]]

InitLongDivBox ==
  /\ divisor \in 1..MaxDivisor
  /\ dividend \in 0..MaxDividend
  /\ results = <<>>
  /\ FormulaInit /\ LayoutIdle /\ ResizeIdle /\ ArrayIdle /\ AtomIdle /\ LibIdle

\* createBox(env): calculate, then the stack
LongDivCreateBoxStep ==
  /\ laid = <<>>
  /\ results' = LongDivAtom_calculate(divisor, dividend)
  /\ laid' = <<LongDivAtom_createBox(results')>>
  /\ UNCHANGED <<divisor, dividend, subject>>
  /\ UNCHANGED <<libVars, formulaVars, layoutVars, resizeVars, arrayVars>>

NextLongDivBox == LongDivCreateBoxStep

SpecLongDivBox == InitLongDivBox /\ [][NextLongDivBox]_vars

\* the rows of the stack are the results after the quotient, in order,
\* starting with the dividend, and the quotient is in a row of its own
TraceInOrder ==
  /\ Len(laid[1].vrow) = Len(results) - 1
  /\ \A k \in DOMAIN laid[1].vrow : laid[1].vrow[k].num = results[k + 1]
  /\ laid[1].vrow[1].num = tostring(dividend)
  /\ laid[1].quotient = results[1]

\* C19 as stated: the rows are in trace order starting with the dividend,
\* the ruled rows are every other row and are the remainder rows, rows 3, 5,
\* ... of the stack, and the quotient is not in the stack.
C19_RemaindersRuled ==
  laid # <<>> =>
    /\ TraceInOrder
    /\ \A k \in DOMAIN laid[1].vrow :
         laid[1].vrow[k].ruled <=>
           /\ k >= 3
           /\ k % 2 = 1
           /\ laid[1].vrow[k].num =
                tostring(RemainderAfter(divisor, dividend, k \div 2))

\* C19, amended: the rows are in trace order starting with the dividend, the
\* ruled rows are every other row and are the partial-product rows, rows 2,
\* 4, ... of the stack, the dividend and the remainder rows carry no rule, and
\* the quotient is not in the stack.
C19_ProductsRuled ==
  laid # <<>> =>
    /\ TraceInOrder
    /\ \A k \in DOMAIN laid[1].vrow :
         /\ laid[1].vrow[k].ruled <=> k % 2 = 0
         /\ k % 2 = 0 =>
              laid[1].vrow[k].num =
                tostring(PartialProduct(divisor, dividend, k \div 2))
         /\ (k % 2 = 1 /\ k >= 3) =>
              laid[1].vrow[k].num =
                tostring(RemainderAfter(divisor, dividend, k \div 2))

\* 7 into 98: the stack is 98, 70 ruled, 28, 28 ruled, 0
C19_Witness ==
  /\ laid # <<>>
  /\ divisor = 7
  /\ dividend = 98
  /\ Len(laid[1].vrow) = 5
  /\ laid[1].vrow[2] = [num |-> <<"7", "0">>, ruled |-> TRUE]
  /\ laid[1].vrow[3] = [num |-> <<"2", "8">>, ruled |-> FALSE]
  /\ laid[1].vrow[4].ruled
  /\ ~laid[1].vrow[5].ruled

(***************************************************************************)
(* CancelAtom::createBox over the box of its base.                         *)
(***************************************************************************)
\* the widths, heights and depths of the base box go up to this; heights and
\* depths start one below zero, as the boxes of a centred VRowAtom or of a
\* strut may have them
MaxCancelDim == 2

CancelTypes == {"SLASH", "BACKSLASH", "CROSS", "OTHER"}

\* the end points of the lines drawn over box, four numbers a line
CancelAtom_lines(cancelType, box) ==
  IF cancelType = "SLASH" THEN <<0, 0, box.width, box.height + box.depth>>
  ELSE IF cancelType = "BACKSLASH"
       THEN <<box.width, 0, 0, box.height + box.depth>>
  ELSE IF cancelType = "CROSS"
       THEN <<0, 0, box.width, box.height + box.depth,
              box.width, 0, 0, box.height + box.depth>>
  ELSE <<>>

\* LineBox(lines, rt) given the width, height and depth of box
CancelAtom_overlap(lines, box) ==
  [width |-> box.width, height |-> box.height, depth |-> box.depth,
   shift |-> 0, children |-> <<>>, space |-> FALSE, ph |-> NULL,
   lines |-> lines]

\* CancelAtom::createBox with the box of the base
CancelAtom_createBox(cancelType, box) ==
  IF cancelType \in {"SLASH", "BACKSLASH", "CROSS"}
  THEN HBox_add(HBox_add(HBox_add(HBox_new, box),
                         StrutBox(-box.width, 0, 0, 0)),
                CancelAtom_overlap(CancelAtom_lines(cancelType, box), box))
  ELSE box

InitCancel ==
  /\ subject \in [cancelType : CancelTypes,
                  box : {Box(w, h, d, 0, <<>>, FALSE, NULL) :
                           w \in 0..MaxCancelDim,
                           h \in -1..MaxCancelDim,
                           d \in -1..MaxCancelDim}]
  /\ laid = <<>>
  /\ FormulaInit /\ LayoutIdle /\ DivIdle /\ ResizeIdle /\ ArrayIdle /\ LibIdle

CancelCreateBoxStep ==
  /\ laid = <<>>
  /\ laid' = <<CancelAtom_createBox(subject.cancelType, subject.box)>>
  /\ UNCHANGED <<libVars, subject, formulaVars, layoutVars, divVars, resizeVars,
                 arrayVars>>

NextCancel == CancelCreateBoxStep

SpecCancel == InitCancel /\ [][NextCancel]_vars

\* C20: for slash, backslash and cross the returned box has the width, height
\* and depth of the base box, holding the base, a strut of minus the base's
\* width and an overlay with the base's width, height and depth that has one
\* line for slash and backslash and two for cross; any other type returns the
\* base box itself.
C20_CancelKeepsGeometry ==
  laid # <<>> =>
    IF subject.cancelType = "OTHER" THEN laid[1] = subject.box
    ELSE /\ laid[1].width = subject.box.width
         /\ laid[1].height = subject.box.height
         /\ laid[1].depth = subject.box.depth
         /\ Len(laid[1].children) = 3
         /\ laid[1].children[1] = subject.box
         /\ laid[1].children[2] = StrutBox(-subject.box.width, 0, 0, 0)
         /\ laid[1].children[3].width = subject.box.width
         /\ laid[1].children[3].height = subject.box.height
         /\ laid[1].children[3].depth = subject.box.depth
         /\ Len(laid[1].children[3].lines) =
              IF subject.cancelType = "CROSS" THEN 8 ELSE 4

(***************************************************************************)
(* Formula::get and the cache of predefined formulas, under SpecGet.       *)
(***************************************************************************)
\* C21: a get of a name that is not cached and has a registered string makes
\* a new formula and stores it under the name exactly when its root is not a
\* row, so that a name whose string parses to a row is parsed again by every
\* get and is never stored; a get of a name that is neither cached nor
\* registered raises formula-not-found and changes neither the cache nor any
\* formula or atom.
C21_GetCachesNonRows ==
  [][Len(got') = Len(got) + 1 =>
       LET e == got'[Len(got')]
       IN predefined[e.name] = NULL =>
            IF e.name \in DOMAIN _predefinedTeXFormulasAsString
            THEN /\ e.outcome = "returned"
                 /\ e.f = Len(formulas) + 1
                 /\ Len(formulas') = Len(formulas) + 1
                 /\ predefined' =
                      IF IsRow(heap', formulas'[e.f].root) THEN predefined
                      ELSE [predefined EXCEPT ![e.name] = e.f]
                 /\ e.name = "row" => IsRow(heap', formulas'[e.f].root)
                 /\ e.name = "sym" => ~IsRow(heap', formulas'[e.f].root)
            ELSE /\ e.outcome = "ex_formula_not_found"
                 /\ e.f = NULL
                 /\ predefined' = predefined
                 /\ heap' = heap
                 /\ formulas' = formulas]_vars

\* "row" was parsed by two gets, into two formulas, and is still not cached,
\* while a get of "sym" stored what it parsed
C21_Witness ==
  /\ predefined["row"] = NULL
  /\ \E i, j \in DOMAIN got :
       /\ i < j
       /\ got[i].name = "row"
       /\ got[j].name = "row"
       /\ got[i].f # NULL
       /\ got[j].f # NULL
       /\ got[i].f # got[j].f
  /\ \E k \in DOMAIN got :
       /\ got[k].name = "sym"
       /\ got[k].before["sym"] = NULL
       /\ predefined["sym"] = got[k].f

(***************************************************************************)
(* SpecCols: a table is built with addCol(), addCol(n) and addRow() alone. *)
(***************************************************************************)
NextCols ==
  \/ ArrayAddStep
  \/ AddColStep
  \/ AddColNStep
  \/ AddRowStep

SpecCols == InitArray /\ [][NextCols]_vars

\* C22: cols() is the number of cells stored in the last row of the table and
\* rows() the number of completed rows, and after addRow the column count is
\* 0 and the last row is empty.
C22_ColsCountsCells ==
  /\ cols(arr.f) = Len(Last(arr.f.array))
  /\ rows(arr.f) = Len(arr.f.array) - 1
  /\ arr.op = "addRow" => (cols(arr.f) = 0 /\ Last(arr.f.array) = <<>>)

(***************************************************************************)
(* MicroTeX: the configuration of the library and its initialisation.      *)
(* lib is [config, mathFonts, mainFonts, system, call]: MICROTEX_CONFIG,    *)
(* the math font names and main font families the FontContext knows, the   *)
(* fonts font-sense finds on the system, and the last call with its result.*)
(***************************************************************************)
\* static Config MICROTEX_CONFIG{false, "", "", false}
MICROTEX_CONFIG ==
  [isInited |-> FALSE, defaultMainFontFamily |-> "",
   defaultMathFontName |-> "", renderGlyphUsePath |-> FALSE]

\* a FontMeta
FontMeta(name, family, isMathFont) ==
  [name |-> name, family |-> family, isMathFont |-> isMathFont]

\* FontMeta{}: the empty meta
FontMeta_empty == FontMeta("", "", FALSE)

\* meta.isValid()
FontMeta_isValid(meta) == meta.name # ""

\* the font files callers hand in, each given as the meta it loads to: two
\* math fonts, a text font, and a file that is not a font
FontSrcs ==
  {FontMeta("xits", "XITS", TRUE), FontMeta("lm", "LM", TRUE),
   FontMeta("serif", "Serif", FALSE), FontMeta_empty}

\* FontContext::addFont(src) on the library state L: a font that loads is
\* known from then on; the meta is what the call returns
FontContext_addFont(L, src) ==
  IF ~FontMeta_isValid(src) THEN L
  ELSE IF src.isMathFont THEN [L EXCEPT !.mathFonts = @ \cup {src.name}]
  ELSE [L EXCEPT !.mainFonts = @ \cup {src.family}]

\* fontsenseLookup() on L: the fonts of the system become known
fontsenseLookup(L) ==
  [L EXCEPT !.mathFonts = @ \cup {m.name : m \in {x \in L.system : x.isMathFont}},
            !.mainFonts = @ \cup {m.family : m \in {x \in L.system : ~x.isMathFont}}]

\* the math fonts fontsenseLookup() can return
fontsenseFound(L) == {x \in L.system : x.isMathFont}

\* a call that returns meta, leaving the library as K
Returned(K, op, meta) ==
  [K EXCEPT !.call = [op |-> op, outcome |-> "returned", meta |-> meta]]

\* a call that throws ex_invalid_param, leaving the library as K
Thrown(K, op) ==
  [K EXCEPT !.call = [op |-> op, outcome |-> "ex_invalid_param",
                      meta |-> FontMeta_empty]]

\* the end of both init functions: the font's name becomes the default math
\* font and the library is initialised
MicroTeX_inited(K, op, meta) ==
  Returned([K EXCEPT !.config.defaultMathFontName = meta.name,
                     !.config.isInited = TRUE], op, meta)

\* init(const FontSrc&) taking the font's name before it looks at the font
MicroTeX_init_eager(L, src) ==
  IF L.config.isInited THEN Returned(L, "init", FontMeta_empty)
  ELSE IF ~FontMeta_isValid(src)
       THEN Thrown([FontContext_addFont(L, src)
                      EXCEPT !.config.defaultMathFontName = "none"], "init")
       ELSE MicroTeX_inited(FontContext_addFont(L, src), "init", src)

\* MicroTeX::init(const FontSrc& mathFontSrc)
MicroTeX_init(L, src) ==
  IF L.config.isInited THEN Returned(L, "init", FontMeta_empty)
  ELSE IF ~FontMeta_isValid(src)
       THEN Thrown(FontContext_addFont(L, src), "init")
       ELSE MicroTeX_inited(FontContext_addFont(L, src), "init", src)

\* MicroTeX::init(const Init& init) with a FontSrc: InitVisitor, first case
MicroTeX_initSrc(L, src) ==
  IF L.config.isInited THEN Returned(L, "initSrc", FontMeta_empty)
  ELSE IF ~src.isMathFont
       THEN Thrown(FontContext_addFont(L, src), "initSrc")
       ELSE MicroTeX_inited(FontContext_addFont(L, src), "initSrc", src)

\* MicroTeX::init(const Init& init) with a font name: InitVisitor, second
\* case; mathFontMetaOf gives the meta of the math font of that name
MicroTeX_initName(L, name, meta) ==
  IF L.config.isInited THEN Returned(L, "initName", FontMeta_empty)
  ELSE IF name \notin fontsenseLookup(L).mathFonts
       THEN Thrown(fontsenseLookup(L), "initName")
       ELSE MicroTeX_inited(fontsenseLookup(L), "initName", meta)

\* MicroTeX::init(const Init& init) with InitFontSenseAuto: InitVisitor,
\* third case; found is what fontsenseLookup returned, <<>> for no value
MicroTeX_initAuto(L, found) ==
  IF L.config.isInited THEN Returned(L, "initAuto", FontMeta_empty)
  ELSE IF found = <<>> THEN Thrown(fontsenseLookup(L), "initAuto")
       ELSE MicroTeX_inited(fontsenseLookup(L), "initAuto", found[1])

\* MicroTeX::release(): the macros are freed
MicroTeX_release(L) == Returned(L, "release", FontMeta_empty)

\* the defaults MicroTeX::addFont fills in when they are empty
MicroTeX_defaults(K, meta) ==
  [K EXCEPT
     !.config.defaultMathFontName =
        IF meta.isMathFont /\ @ = "" THEN meta.name ELSE @,
     !.config.defaultMainFontFamily =
        IF ~meta.isMathFont /\ @ = "" THEN meta.family ELSE @]

\* MicroTeX::addFont(src)
MicroTeX_addFont(L, src) ==
  Returned(MicroTeX_defaults(FontContext_addFont(L, src), src), "addFont", src)

\* MicroTeX::setDefaultMathFont(name)
MicroTeX_setDefaultMathFont(L, name) ==
  IF name \notin L.mathFonts THEN Returned(L, "setDefaultMathFont", FontMeta_empty)
  ELSE Returned([L EXCEPT !.config.defaultMathFontName = name],
                "setDefaultMathFont", FontMeta_empty)

\* MicroTeX::setDefaultMainFont(family)
MicroTeX_setDefaultMainFont(L, family) ==
  IF family = "" \/ family \in L.mainFonts
  THEN Returned([L EXCEPT !.config.defaultMainFontFamily = family],
                "setDefaultMainFont", FontMeta_empty)
  ELSE Returned(L, "setDefaultMainFont", FontMeta_empty)

\* MicroTeX::setRenderGlyphUsePath(use), built with GLYPH_RENDER_TYPE == 0
MicroTeX_setRenderGlyphUsePath(L, use) ==
  Returned([L EXCEPT !.config.renderGlyphUsePath = use],
           "setRenderGlyphUsePath", FontMeta_empty)

\* the metas of the math fonts of a name among the fonts there are
MathFontMetaOf(name) == {m \in FontSrcs : m.isMathFont /\ m.name = name}

InitLib ==
  /\ lib \in [config : {MICROTEX_CONFIG}, mathFonts : {{}}, mainFonts : {{}},
              system : SUBSET (FontSrcs \ {FontMeta_empty,
                                           FontMeta("lm", "LM", TRUE)}),
              call : {[op |-> "none", outcome |-> "returned",
                       meta |-> FontMeta_empty]}]
  /\ FormulaInit /\ LayoutIdle /\ DivIdle /\ ResizeIdle /\ ArrayIdle /\ AtomIdle

LibUnchanged ==
  UNCHANGED <<formulaVars, layoutVars, divVars, resizeVars, arrayVars, atomVars>>

InitFontSrcStep ==
  /\ \E src \in FontSrcs : lib' = MicroTeX_init(lib, src)
  /\ LibUnchanged

InitSrcStep ==
  /\ \E src \in FontSrcs : lib' = MicroTeX_initSrc(lib, src)
  /\ LibUnchanged

InitNameStep ==
  /\ \E name \in {"xits", "lm", "serif"} :
       \/ /\ MathFontMetaOf(name) # {}
          /\ \E meta \in MathFontMetaOf(name) :
               lib' = MicroTeX_initName(lib, name, meta)
       \/ /\ MathFontMetaOf(name) = {}
          /\ lib' = MicroTeX_initName(lib, name, FontMeta_empty)
  /\ LibUnchanged

InitAutoStep ==
  /\ \/ /\ fontsenseFound(lib) = {}
        /\ lib' = MicroTeX_initAuto(lib, <<>>)
     \/ \E m \in fontsenseFound(lib) : lib' = MicroTeX_initAuto(lib, <<m>>)
  /\ LibUnchanged

ReleaseStep == lib' = MicroTeX_release(lib) /\ LibUnchanged

AddFontStep ==
  /\ \E src \in FontSrcs : lib' = MicroTeX_addFont(lib, src)
  /\ LibUnchanged

SetDefaultMathFontStep ==
  /\ \E name \in {"xits", "lm", "serif"} :
       lib' = MicroTeX_setDefaultMathFont(lib, name)
  /\ LibUnchanged

SetDefaultMainFontStep ==
  /\ \E family \in {"", "Serif", "XITS"} :
       lib' = MicroTeX_setDefaultMainFont(lib, family)
  /\ LibUnchanged

SetRenderGlyphUsePathStep ==
  /\ \E use \in BOOLEAN : lib' = MicroTeX_setRenderGlyphUsePath(lib, use)
  /\ LibUnchanged

NextLib ==
  \/ InitFontSrcStep
  \/ InitSrcStep
  \/ InitNameStep
  \/ InitAutoStep
  \/ ReleaseStep
  \/ AddFontStep
  \/ SetDefaultMathFontStep
  \/ SetDefaultMainFontStep
  \/ SetRenderGlyphUsePathStep

SpecLib == InitLib /\ [][NextLib]_vars

InitOps == {"init", "initSrc", "initName", "initAuto"}

====
